---- MODULE Spec2Model ----
(***************************************************************************)
(* Verification model of the genesis tree topology functions               *)
(* (lib/genesis/tree/function/functions.cpp) and of the binary Sample      *)
(* serializer (lib/genesis/placement/formats/serializer.cpp).              *)
(*                                                                         *)
(* The topology is an arena of links, nodes and edges.  Objects are named  *)
(* by their address in the arena; every object also stores its index in    *)
(* the tables of the Tree that owns it.                                    *)
(***************************************************************************)
EXTENDS Integers, Sequences, FiniteSets, TLC

VARIABLES heap, trees, pars, op, args, res, sample, file, faults, sample_set,
          matrix, file_names, count_, log_mutex, ostreams_, threads

vars == <<heap, trees, pars, op, args, res, sample, file, faults, sample_set,
         matrix, file_names, count_, log_mutex, ostreams_, threads>>

\* The state of Logging: the message counter, the owner of the log mutex
\* (0: nobody), what the output streams have received, and the threads that
\* are logging.
log_vars == <<count_, log_mutex, ostreams_, threads>>

\* No thread logs.
NoLogging == count_ = 0 /\ log_mutex = 0 /\ ostreams_ = <<>> /\ threads = <<>>

\* Largest number of nodes of an enumerated tree.
MaxNodes == 5

\* Largest number of Pqueries of a Sample, of placements and of names of a
\* Pquery, of nodes of a Sample's tree, and of faults put into a file.
MaxPqueries == 2
MaxPlacements == 2
MaxNames == 2
MaxSampleNodes == 3
MaxFaults == 2

\* Largest number of nodes of each of two topologies that exist together.
MaxCrossNodes == 3

\* Largest number of nodes of the tree of the Samples of a SampleSet, of
\* Pqueries of such a Sample, and of Samples of a SampleSet.
MaxEpcaNodes == 4
MaxEpcaPqueries == 2
MaxEpcaSamples == 2

\* Largest number of columns of a matrix given to epca_splitify_transform.
MaxMatrixCols == 2

\* The null pointer.
nullptr == 0 - 1

----------------------------------------------------------------------------
(* Construction of a topology from a parent vector                         *)

\* Parent vectors over nodes 0..n-1: exactly one root r (par[r] = r); every
\* other node hangs below a node of smaller index or below the root.
ParVecs(n) ==
    { p \in [0 .. n - 1 -> 0 .. n - 1] :
        \E r \in 0 .. n - 1 :
            /\ p[r] = r
            /\ \A v \in (0 .. n - 1) \ {r} : p[v] # v /\ (p[v] < v \/ p[v] = r) }

\* The reference topology ((B,(D,E)C)A,F,(H,I)G)R as the reader numbers it:
\* R=0 G=1 I=2 H=3 F=4 A=5 C=6 E=7 D=8 B=9.
RefParent == [v \in 0 .. 9 |-> <<0, 0, 1, 1, 0, 0, 5, 6, 6, 5>>[v + 1]]

RootOf(par) == CHOOSE r \in DOMAIN par : par[r] = r

Children(par, v) == { c \in DOMAIN par : par[c] = v /\ c # v }

\* Number of links of node v: one towards the root (not at the root itself)
\* and one per child.
NLinks(par, v) == Cardinality(Children(par, v)) + (IF par[v] = v THEN 0 ELSE 1)

RECURSIVE LinkBase(_, _)
\* Index of the first link of node v: links are laid out node after node.
LinkBase(par, v) == IF v = 0 THEN 0 ELSE LinkBase(par, v - 1) + NLinks(par, v - 1)

\* Index of the link of par[c] that leads down to c: the links to the
\* children follow the link towards the root, the largest child first.
DownLink(par, c) ==
    LET v == par[c]
    IN  LinkBase(par, v) + (IF par[v] = v THEN 0 ELSE 1)
          + Cardinality({ d \in Children(par, v) : d > c })

\* Index of the edge between c and its parent.
EdgeOf(par, c) == IF c > RootOf(par) THEN c - 1 ELSE c

LinkCount(par) == IF DOMAIN par = {} THEN 0 ELSE 2 * (Cardinality(DOMAIN par) - 1)

\* Owner node and target of the link with index k.
LinkOwner(par, k) ==
    CHOOSE v \in DOMAIN par : LinkBase(par, v) <= k /\ k < LinkBase(par, v) + NLinks(par, v)

LinkIsUp(par, k) ==
    LET v == LinkOwner(par, k) IN par[v] # v /\ k = LinkBase(par, v)

LinkChild(par, k) ==
    LET v == LinkOwner(par, k)
    IN  IF LinkIsUp(par, k) THEN v
        ELSE CHOOSE c \in Children(par, v) : DownLink(par, c) = k

\* The arena of one tree, its links at addresses lo.., its nodes at no..,
\* its edges at eo.. .
MakeHeap(par, lo, no, eo) ==
    LET L == 0 .. LinkCount(par) - 1
        N == DOMAIN par
        E == 0 .. Cardinality(N) - 2
        nd(c) == CHOOSE v \in N : par[v] # v /\ EdgeOf(par, v) = c
    IN  [ lnext  |-> [ a \in { lo + k : k \in L } |->
                        LET k == a - lo
                            v == LinkOwner(par, k)
                            b == LinkBase(par, v)
                        IN  lo + b + ((k - b + 1) % NLinks(par, v)) ],
          louter |-> [ a \in { lo + k : k \in L } |->
                        LET k == a - lo
                            c == LinkChild(par, k)
                        IN  lo + (IF LinkIsUp(par, k) THEN DownLink(par, c)
                                                     ELSE LinkBase(par, c)) ],
          lnode  |-> [ a \in { lo + k : k \in L } |-> no + LinkOwner(par, a - lo) ],
          ledge  |-> [ a \in { lo + k : k \in L } |->
                        eo + EdgeOf(par, LinkChild(par, a - lo)) ],
          lindex |-> [ a \in { lo + k : k \in L } |-> a - lo ],
          nlink  |-> [ a \in { no + v : v \in N } |-> lo + LinkBase(par, a - no) ],
          nindex |-> [ a \in { no + v : v \in N } |-> a - no ],
          eprim  |-> [ a \in { eo + e : e \in E } |-> lo + DownLink(par, nd(a - eo)) ],
          esec   |-> [ a \in { eo + e : e \in E } |-> lo + LinkBase(par, nd(a - eo)) ],
          eindex |-> [ a \in { eo + e : e \in E } |-> a - eo ] ]

\* The tables of the Tree object that owns this arena.
MakeTree(par, lo, no, eo) ==
    [ links_ |-> [ k \in 0 .. LinkCount(par) - 1 |-> lo + k ],
      nodes_ |-> [ v \in DOMAIN par |-> no + v ],
      edges_ |-> [ e \in 0 .. Cardinality(DOMAIN par) - 2 |-> eo + e ],
      root_link_ |-> IF DOMAIN par = {} THEN nullptr
                     ELSE lo + LinkBase(par, RootOf(par)) ]

----------------------------------------------------------------------------
(* Accessors of TreeLink, TreeNode, TreeEdge and Tree                      *)

next(l)  == heap.lnext[l]
outer(l) == heap.louter[l]
node(l)  == heap.lnode[l]
edge(l)  == heap.ledge[l]
link(n)  == heap.nlink[n]
primary_link(e)   == heap.eprim[e]
secondary_link(e) == heap.esec[e]
primary_node(e)   == node(primary_link(e))
secondary_node(e) == node(secondary_link(e))

node_count(t) == Cardinality(DOMAIN t.nodes_)
edge_count(t) == Cardinality(DOMAIN t.edges_)
link_count(t) == Cardinality(DOMAIN t.links_)
node_at(t, i) == t.nodes_[i]
edge_at(t, i) == t.edges_[i]
link_at(t, i) == t.links_[i]
root_link(t)  == t.root_link_
root_node(t)  == node(t.root_link_)
empty(t)      == link_count(t) = 0 /\ node_count(t) = 0 /\ edge_count(t) = 0

----------------------------------------------------------------------------
(* Node properties                                                         *)

is_leaf(l)  == next(l) = l
is_inner(l) == next(l) # l
is_leaf_node(n)  == is_leaf(link(n))
is_inner_node(n) == is_inner(link(n))
is_root(n) == primary_link(edge(link(n))) = link(n)

RECURSIVE degree_loop_while(_, _, _)
\* The loop as a while loop, testing before the first increment.
degree_loop_while(n, lnk, dgr) ==
    IF next(lnk) # link(n) THEN degree_loop_while(n, next(lnk), dgr + 1) ELSE dgr

RECURSIVE degree_loop(_, _, _)
\* do { ++dgr; lnk = &lnk->next(); } while( lnk != &node.link() );
degree_loop(n, lnk, dgr) ==
    LET d == dgr + 1
        l == next(lnk)
    IN  IF l # link(n) THEN degree_loop(n, l, d) ELSE d

degree(n) == degree_loop(n, link(n), 0)

RECURSIVE node_links_iter(_, _, _)
\* The links yielded by the range node_links( node ): the iterator starts at
\* the primary link and operator++ ends the range when next() is the start.
node_links_iter(start, lnk, acc) ==
    IF lnk = nullptr THEN acc
    ELSE LET l == next(lnk)
         IN  node_links_iter(start, IF l = start THEN nullptr ELSE l, Append(acc, lnk))

node_links(n) == node_links_iter(link(n), link(n), <<>>)

----------------------------------------------------------------------------
(* Results of a call: a value, a thrown exception, or a failed assert()    *)

Ok(v)      == [status |-> "ok", value |-> v]
Throw(w)   == [status |-> "error", what |-> w]
Abort      == [status |-> "abort"]

Back(s) == s[Len(s)]
PopBack(s) == SubSeq(s, 1, Len(s) - 1)

----------------------------------------------------------------------------
(* Lowest common ancestor                                                  *)

RECURSIVE path_to_root_loop(_, _)
\* while( &cur_link->edge().secondary_link() == cur_link ) { push; move up }
path_to_root_loop(cur_link, path) ==
    IF secondary_link(edge(cur_link)) = cur_link
    THEN path_to_root_loop(link(node(outer(cur_link))), Append(path, cur_link))
    ELSE Append(path, cur_link)

path_to_root(n) == path_to_root_loop(link(n), <<>>)

RECURSIVE lca_trim_last_only(_, _)
\* The loop comparing the last elements only.
lca_trim_last_only(path_a, path_b) ==
    IF /\ Len(path_a) > 1
       /\ Len(path_b) > 1
       /\ path_a[Len(path_a)] = path_b[Len(path_b)]
    THEN lca_trim_last_only(PopBack(path_a), PopBack(path_b))
    ELSE <<path_a, path_b>>

RECURSIVE lca_trim(_, _)
\* Remove from the back as long as the last two elements are the same.
lca_trim(path_a, path_b) ==
    IF /\ Len(path_a) > 1
       /\ Len(path_b) > 1
       /\ path_a[Len(path_a)] = path_b[Len(path_b)]
       /\ path_a[Len(path_a) - 1] = path_b[Len(path_b) - 1]
    THEN lca_trim(PopBack(path_a), PopBack(path_b))
    ELSE <<path_a, path_b>>

\* ndebug: the build compiles assert() away.
lowest_common_ancestor(node_a, node_b, ndebug) ==
    IF node_a = node_b THEN Ok(node_a)
    ELSE LET path_a == path_to_root(node_a)
             path_b == path_to_root(node_b)
             trimmed == lca_trim(path_a, path_b)
         IN  IF ~ndebug /\ ~( /\ Len(path_a) > 0 /\ Len(path_b) > 0
                              /\ path_a[1] = link(node_a)
                              /\ path_b[1] = link(node_b)
                              /\ Back(path_a) = Back(path_b) )
             THEN Abort
             ELSE IF ~ndebug /\ ~( /\ Len(trimmed[1]) > 0 /\ Len(trimmed[2]) > 0
                                   /\ Back(trimmed[1]) = Back(trimmed[2]) )
             THEN Abort
             ELSE Ok(node(Back(trimmed[1])))

\* utils::triangular_size( n ): number of cells above the diagonal.
triangular_size(n) == (n * n - n) \div 2

RECURSIVE triangular_indices_row(_, _, _)
triangular_indices_row(k, n, i) ==
    IF k < n - 1 - i THEN <<i, i + 1 + k>>
    ELSE triangular_indices_row(k - (n - 1 - i), n, i + 1)

\* utils::triangular_indices( k, n ): the k-th cell (r, c), r < c, of the
\* upper triangle in row-major order.
triangular_indices(k, n) == triangular_indices_row(k, n, 0)

\* utils::Matrix<T>( rows, cols ): value-initialised cells.
Matrix(rows, cols, init) == [rc \in (0 .. rows - 1) \X (0 .. cols - 1) |-> init]

\* The matrix after the iterations its[1], its[2], ... of a loop have run in
\* this order, iteration it storing val(it) into each cell of cells(it): a
\* cell holds what the last iteration that writes it has stored.
ApplyWrites(mat, its, cells(_), val(_)) ==
    [rc \in DOMAIN mat |->
        LET W == { i \in DOMAIN its : rc \in cells(its[i]) }
        IN  IF W = {} THEN mat[rc]
            ELSE val(its[CHOOSE i \in W : \A j \in W : j <= i])]

\* An iteration that writes res( r, c ) only.
lcas_cells_one(rc) == { <<rc[1], rc[2]>> }

\* res( r, c ) = ...; res( c, r ) = ...; the cells iteration (r, c) writes.
lcas_cells(rc) == { <<rc[1], rc[2]>>, <<rc[2], rc[1]>> }

\* lowest_common_ancestor( tree.node_at(r), tree.node_at(c) ).index()
lcas_value(t, rc) ==
    heap.nindex[lowest_common_ancestor(node_at(t, rc[1]), node_at(t, rc[2]), TRUE).value]

\* for( r = 0 ..) for( c = r ..): the iterations of the serial build in order.
lcas_serial_iterations(n) ==
    [i \in 1 .. (n * (n + 1)) \div 2 |->
        CHOOSE rc \in (0 .. n - 1) \X (0 .. n - 1) :
            /\ rc[1] <= rc[2]
            /\ rc[1] * n - (rc[1] * (rc[1] - 1)) \div 2 + (rc[2] - rc[1]) + 1 = i]

lowest_common_ancestors_serial(t) ==
    ApplyWrites(Matrix(node_count(t), node_count(t), 0),
                lcas_serial_iterations(node_count(t)),
                lcas_cells, LAMBDA rc : lcas_value(t, rc))

\* The two omp parallel for loops of the GENESIS_OPENMP build: the upper
\* triangle, its iterations k completing in the order sched_k, and then the
\* diagonal, res( d, d ) = d, in the order sched_d.
lcas_diagonal_cells(d) == { <<d, d>> }

lowest_common_ancestors_openmp(t, sched_k, sched_d) ==
    ApplyWrites(
        ApplyWrites(Matrix(node_count(t), node_count(t), 0),
                    [i \in DOMAIN sched_k |-> triangular_indices(sched_k[i], node_count(t))],
                    lcas_cells, LAMBDA rc : lcas_value(t, rc)),
        sched_d, lcas_diagonal_cells, LAMBDA d : d)

\* Orders in which the iterations 0 .. m-1 of a parallel loop may complete:
\* ascending, descending, and ascending from the middle with wrap-around.
Schedules(m) ==
    { [i \in 1 .. m |-> i - 1],
      [i \in 1 .. m |-> m - i],
      [i \in 1 .. m |-> (i - 1 + m \div 2) % m] }

----------------------------------------------------------------------------
(* Node count properties                                                   *)

\* The loop testing for degree > 3 only.
is_bifurcating_max_degree(t, loose) ==
    \A i \in 0 .. node_count(t) - 1 : ~(degree(node_at(t, i)) > 3)

\* The loop returns false at the first node of degree > 3 and at the first
\* node of degree 2 that is not the root (unless loose).
is_bifurcating(t, loose) ==
    \A i \in 0 .. node_count(t) - 1 :
        LET deg == degree(node_at(t, i))
            isroot == heap.nindex[node_at(t, i)] = heap.nindex[root_node(t)]
        IN  /\ ~(deg > 3)
            /\ ~(deg = 2 /\ ~isroot /\ ~loose)

is_rooted(t) == degree(root_node(t)) = 2

\* Indices of the inner / leaf nodes, in the order of tree.nodes().
IndicesWhere(n, P(_)) ==
    LET S == { i \in 0 .. n - 1 : P(i) }
    IN  [k \in 0 .. Cardinality(S) - 1 |->
            CHOOSE i \in S : Cardinality({ j \in S : j < i }) = k]

inner_node_indices(t) == IndicesWhere(node_count(t), LAMBDA i : is_inner_node(node_at(t, i)))
leaf_node_indices(t)  == IndicesWhere(node_count(t), LAMBDA i : is_leaf_node(node_at(t, i)))

----------------------------------------------------------------------------
(* Preorder traversal of a Subtree                                         *)

RECURSIVE preorder(_)
RECURSIVE preorder_children(_, _)
\* The subtrees behind the links after l on the ring of start, in order.
preorder_children(start, l) ==
    IF l = start THEN <<>>
    ELSE preorder(outer(l)) \o preorder_children(start, next(l))

\* preorder( Subtree{ lnk } ): the node of lnk, then the subtrees behind its
\* other links; the part of the tree behind lnk itself is not entered.
preorder(lnk) == <<node(lnk)>> \o preorder_children(lnk, next(lnk))

Range(f) == { f[x] : x \in DOMAIN f }

----------------------------------------------------------------------------
(* Sign matrix                                                             *)

\* fill_subtree_indices( row_idx, st, sign ): the cells one call writes.
fill_subtree_indices(row_idx, st) ==
    { <<row_idx, heap.nindex[n]>> : n \in Range(preorder(st)) }

\* The calls of a row, every row treated as the root's row.
sign_matrix_fill_as_root(t, i, second) ==
    LET row_node == node_at(t, i)
        row_idx  == heap.nindex[row_node]
    IN  IF row_idx = heap.nindex[root_node(t)] \/ is_inner_node(row_node)
        THEN IF ~second THEN <<row_idx, outer(link(row_node)), 1>>
                        ELSE <<row_idx, outer(next(link(row_node))), 0 - 1>>
        ELSE <<row_idx, nullptr, 0>>

\* The two calls of fill_subtree_indices of the row of node i, as
\* <<row_idx, subtree link, sign>>; a leaf row makes no call (nullptr).
sign_matrix_fill(t, i, second) ==
    LET row_node == node_at(t, i)
        row_idx  == heap.nindex[row_node]
    IN  IF row_idx = heap.nindex[root_node(t)]
        THEN IF ~second THEN <<row_idx, outer(link(row_node)), 1>>
                        ELSE <<row_idx, outer(next(link(row_node))), 0 - 1>>
        ELSE IF is_inner_node(row_node)
        THEN IF ~second THEN <<row_idx, outer(next(link(row_node))), 1>>
                        ELSE <<row_idx, outer(next(next(link(row_node)))), 0 - 1>>
        ELSE <<row_idx, nullptr, 0>>

sign_matrix_cells(f) == IF f[2] = nullptr THEN {} ELSE fill_subtree_indices(f[1], f[2])

\* The rows are the iterations of an omp parallel for; sched is the order in
\* which they run.
sign_matrix_full(t, sched) ==
    ApplyWrites(Matrix(node_count(t), node_count(t), 0),
                [k \in 1 .. 2 * Len(sched) |->
                    sign_matrix_fill(t, sched[(k + 1) \div 2], k % 2 = 0)],
                sign_matrix_cells, LAMBDA f : f[3])

\* result_cmpr( r, c ) = result( in_node_idcs[r], lf_node_idcs[c] )
sign_matrix_compress(t, result) ==
    LET in_node_idcs == inner_node_indices(t)
        lf_node_idcs == leaf_node_indices(t)
    IN  [rc \in (DOMAIN in_node_idcs) \X (DOMAIN lf_node_idcs) |->
            result[<<in_node_idcs[rc[1]], lf_node_idcs[rc[2]]>>]]

sign_matrix(t, compressed, sched) ==
    IF empty(t) THEN Ok(Matrix(0, 0, 0))
    ELSE IF ~is_rooted(t) THEN Throw("invalid_argument")
    ELSE IF ~is_bifurcating(t, FALSE) THEN Throw("invalid_argument")
    ELSE IF compressed THEN Ok(sign_matrix_compress(t, sign_matrix_full(t, sched)))
    ELSE Ok(sign_matrix_full(t, sched))

----------------------------------------------------------------------------
(* Edge sides                                                              *)

RECURSIVE edge_sides_traverse(_, _, _)
\* auto link = &start_link.next(); while( link != &start_link ) { ...;
\* link = &link->outer().next(); }: the indices of the edges it marks.
edge_sides_traverse(start_link, lnk, marked) ==
    IF lnk = start_link THEN marked
    ELSE edge_sides_traverse(start_link, next(outer(lnk)),
                             marked \cup {heap.eindex[edge(lnk)]})

\* The calls of traverse with the two signs exchanged.
edge_sides_calls_swapped(t) ==
    [k \in 1 .. 2 * edge_count(t) |->
        LET i == (k - 1) \div 2
        IN  IF k % 2 = 1 THEN <<i, primary_link(edge_at(t, i)), 1>>
                         ELSE <<i, secondary_link(edge_at(t, i)), 0 - 1>>]

\* The calls of traverse, in the order of the loop over the edges:
\* <<i, start link, sign>>.
edge_sides_calls(t) ==
    [k \in 1 .. 2 * edge_count(t) |->
        LET i == (k - 1) \div 2
        IN  IF k % 2 = 1 THEN <<i, primary_link(edge_at(t, i)), 0 - 1>>
                         ELSE <<i, secondary_link(edge_at(t, i)), 1>>]

edge_sides_cells(call) ==
    { <<call[1], j>> : j \in edge_sides_traverse(call[2], next(call[2]), {}) }

edge_sides(t) ==
    ApplyWrites(Matrix(edge_count(t), edge_count(t), 0),
                edge_sides_calls(t), edge_sides_cells, LAMBDA call : call[3])

----------------------------------------------------------------------------
(* Subtrees                                                                *)

\* belongs_to( tree, link ): the tree's table holds the link at its index.
belongs_to_link(t, lnk) ==
    /\ lnk \in DOMAIN heap.lindex
    /\ heap.lindex[lnk] < link_count(t)
    /\ link_at(t, heap.lindex[lnk]) = lnk

\* belongs_to( tree, node )
belongs_to_node(t, n) ==
    /\ n \in DOMAIN heap.nindex
    /\ heap.nindex[n] < node_count(t)
    /\ node_at(t, heap.nindex[n]) = n

RECURSIVE subtree_size_loop_links(_, _, _)
\* The loop inserting the links it passes instead of their nodes.
subtree_size_loop_links(lnk, cur_link, visited_nodes) ==
    IF cur_link = lnk THEN visited_nodes
    ELSE subtree_size_loop_links(lnk, outer(next(cur_link)), visited_nodes \cup {cur_link})

RECURSIVE subtree_size_loop(_, _, _)
\* while( cur_link != &link ) { visited_nodes.insert( &cur_link->node() );
\* cur_link = &cur_link->next().outer(); }
subtree_size_loop(lnk, cur_link, visited_nodes) ==
    IF cur_link = lnk THEN visited_nodes
    ELSE subtree_size_loop(lnk, outer(next(cur_link)), visited_nodes \cup {node(cur_link)})

subtree_size(t, lnk) ==
    IF ~belongs_to_link(t, lnk) THEN Throw("runtime_error")
    ELSE Ok(Cardinality(subtree_size_loop(lnk, outer(lnk), {})))

RECURSIVE eulertour_iter(_, _, _)
\* eulertour( node ): the iterator starts at the node's link; operator++
\* moves to link.outer().next() and ends the range at the start link.
eulertour_iter(start, lnk, acc) ==
    LET l == next(outer(lnk))
    IN  IF l = start THEN Append(acc, lnk)
        ELSE eulertour_iter(start, l, Append(acc, lnk))

eulertour(n) == eulertour_iter(link(n), link(n), <<>>)

RECURSIVE subtree_sizes_loop(_, _, _, _, _)
\* for( auto it : eulertour( node )): <<stack, result>> after the steps
\* i .. Len(tour) of the traversal.
subtree_sizes_loop(n, tour, i, stack, result) ==
    IF i > Len(tour) THEN <<stack, result>>
    ELSE LET it  == tour[i]
             top == heap.nindex[node(Back(stack))]
         IN  IF next(it) = Back(stack) /\ Back(stack) # link(n)
             THEN LET st_size == result[top]
                      popped  == PopBack(stack)
                      par_idx == heap.nindex[node(Back(popped))]
                  IN  subtree_sizes_loop(n, tour, i + 1, popped,
                          [result EXCEPT ![par_idx] = @ + st_size])
             ELSE IF node(it) = node(Back(stack))
             THEN subtree_sizes_loop(n, tour, i + 1, stack, result)
             ELSE IF is_leaf(it)
             THEN subtree_sizes_loop(n, tour, i + 1, stack,
                      [result EXCEPT ![top] = @ + 1])
             ELSE subtree_sizes_loop(n, tour, i + 1, Append(stack, it),
                      [result EXCEPT ![top] = @ + 1])

\* The subtree_sizes that makes no belongs_to test.
subtree_sizes_unchecked(t, n, ndebug) ==
    LET fin == subtree_sizes_loop(n, eulertour(n), 1, <<link(n)>>,
                                  [i \in 0 .. node_count(t) - 1 |-> 0])
    IN  Ok(fin[2])

\* The subtree_sizes that always takes the root of the tree as the start
\* of the traversal, whatever node is given.
subtree_sizes_from_root(t, n, ndebug) ==
    LET r   == root_node(t)
        fin == subtree_sizes_loop(r, eulertour(r), 1, <<link(r)>>,
                                  [i \in 0 .. node_count(t) - 1 |-> 0])
    IN  Ok(fin[2])

\* subtree_sizes( tree, node )
subtree_sizes(t, n, ndebug) ==
    IF ~belongs_to_node(t, n) THEN Throw("runtime_error")
    ELSE LET fin == subtree_sizes_loop(n, eulertour(n), 1, <<link(n)>>,
                                       [i \in 0 .. node_count(t) - 1 |-> 0])
         IN  IF ~ndebug /\ ~(Len(fin[1]) = 1 /\ Back(fin[1]) = link(n))
             THEN Abort
             ELSE IF ~ndebug /\ fin[2][heap.nindex[n]] # node_count(t) - 1
             THEN Abort
             ELSE Ok(fin[2])

RECURSIVE path_length_from(_, _, _)
\* The nodes within d edges of the nodes of S are known; the lengths of the
\* paths to all nodes, by index.
path_length_from(S, d, dists) ==
    LET T == { node(outer(l)) : l \in { k \in DOMAIN heap.lnext : node(k) \in S } } \ S
    IN  IF T \subseteq DOMAIN dists THEN dists
        ELSE path_length_from(T, d + 1, dists @@ [m \in T |-> d + 1])

\* node_path_length_vector( tree, node ): the number of edges between the
\* node and every node, by node index.
node_path_length_vector(t, n) ==
    LET dists == path_length_from({n}, 0, [m \in {n} |-> 0])
    IN  [i \in 0 .. node_count(t) - 1 |-> dists[node_at(t, i)]]

Max(a, b) == IF a >= b THEN a ELSE b

RECURSIVE subtree_max_path_height_loop(_, _, _, _)
\* while( cur_link != &link ) { max = std::max( max, dists[ ... ] ); ... }
subtree_max_path_height_loop(lnk, cur_link, dists, max) ==
    IF cur_link = lnk THEN max
    ELSE subtree_max_path_height_loop(lnk, outer(next(cur_link)), dists,
             Max(max, dists[heap.nindex[node(cur_link)]]))

\* subtree_max_path_height( tree, link )
subtree_max_path_height(t, lnk) ==
    IF ~belongs_to_link(t, lnk) THEN Throw("runtime_error")
    ELSE Ok(subtree_max_path_height_loop(lnk, outer(lnk),
                node_path_length_vector(t, node(outer(lnk))), 0))

RECURSIVE rec_subtree_height(_, _)
RECURSIVE rec_subtree_height_loop(_, _, _, _)
\* while( cl != l ) { link_max = max( link_max, 1 + rec( &cl->outer() )); }
\* <<link_max, result>>
rec_subtree_height_loop(l, cl, link_max, result) ==
    IF cl = l THEN <<link_max, result>>
    ELSE LET r == rec_subtree_height(outer(cl), result)
         IN  rec_subtree_height_loop(l, next(cl), Max(link_max, 1 + r[1]), r[2])

rec_subtree_height(l, result) ==
    LET r == rec_subtree_height_loop(l, next(l), 0, result)
    IN  <<r[1], [r[2] EXCEPT ![heap.nindex[node(l)]] = r[1]]>>

RECURSIVE subtree_max_path_heights_loop(_, _, _, _)
\* do { node_max = max( node_max, 1 + rec( &cur_l->outer() )); cur_l = next }
\* while( cur_l != &node.link() );
subtree_max_path_heights_loop(n, cur_l, node_max, result) ==
    LET r == rec_subtree_height(outer(cur_l), result)
        m == Max(node_max, 1 + r[1])
    IN  IF next(cur_l) # link(n)
        THEN subtree_max_path_heights_loop(n, next(cur_l), m, r[2])
        ELSE <<m, r[2]>>

\* The subtree_max_path_heights that reports the distance from the start
\* node instead of the height above the leaves.
subtree_max_path_depths(t, n) == Ok(node_path_length_vector(t, n))

\* subtree_max_path_heights( tree, node )
subtree_max_path_heights(t, n) ==
    IF ~belongs_to_node(t, n) THEN Throw("runtime_error")
    ELSE LET r == subtree_max_path_heights_loop(n, link(n), 0,
                      [i \in 0 .. node_count(t) - 1 |-> 0])
         IN  Ok([r[2] EXCEPT ![heap.nindex[n]] = r[1]])

----------------------------------------------------------------------------

Init ==
    /\ \E par \in UNION { ParVecs(n) : n \in 2 .. MaxNodes } \cup {RefParent, <<>>} :
          /\ heap = MakeHeap(par, 0, 0, 0)
          /\ trees = <<MakeTree(par, 0, 0, 0)>>
          /\ pars = <<par>>
    /\ op = "init"
    /\ file_names = <<>>
    /\ args = <<>>
    /\ res = <<>>
    /\ sample = <<>>
    /\ file = <<>>
    /\ faults = 0
    /\ NoLogging
    /\ sample_set = <<>>
    /\ matrix = <<>>

\* The functions are pure: a behaviour is one call on a constructed topology.
CallDegree(n) ==
    /\ op = "init"
    /\ op' = "degree"
    /\ args' = <<n>>
    /\ res' = Ok(degree(n))
    /\ UNCHANGED <<heap, trees, pars, sample, file, faults, sample_set, matrix, file_names, log_vars>>

CallNodeLinks(n) ==
    /\ op = "init"
    /\ op' = "node_links"
    /\ args' = <<n>>
    /\ res' = Ok(node_links(n))
    /\ UNCHANGED <<heap, trees, pars, sample, file, faults, sample_set, matrix, file_names, log_vars>>

CallLowestCommonAncestor(a, b) ==
    /\ op = "init"
    /\ op' = "lowest_common_ancestor"
    /\ args' = <<a, b>>
    /\ \E ndebug \in BOOLEAN : res' = lowest_common_ancestor(a, b, ndebug)
    /\ UNCHANGED <<heap, trees, pars, sample, file, faults, sample_set, matrix, file_names, log_vars>>

CallLowestCommonAncestors(openmp) ==
    /\ op = "init"
    /\ op' = "lowest_common_ancestors"
    /\ args' = <<openmp>>
    /\ IF openmp
       THEN \E sk \in Schedules(triangular_size(node_count(trees[1]))) :
            \E sd \in Schedules(node_count(trees[1])) :
                res' = Ok(lowest_common_ancestors_openmp(trees[1], sk, sd))
       ELSE res' = Ok(lowest_common_ancestors_serial(trees[1]))
    /\ UNCHANGED <<heap, trees, pars, sample, file, faults, sample_set, matrix, file_names, log_vars>>

CallSignMatrix(compressed) ==
    /\ op = "init"
    /\ op' = "sign_matrix"
    /\ args' = <<compressed>>
    /\ \E sched \in Schedules(node_count(trees[1])) :
          res' = sign_matrix(trees[1], compressed, sched)
    /\ UNCHANGED <<heap, trees, pars, sample, file, faults, sample_set, matrix, file_names, log_vars>>

CallEdgeSides ==
    /\ op = "init"
    /\ op' = "edge_sides"
    /\ args' = <<>>
    /\ res' = Ok(edge_sides(trees[1]))
    /\ UNCHANGED <<heap, trees, pars, sample, file, faults, sample_set, matrix, file_names, log_vars>>

CallSubtreeSize(lnk) ==
    /\ op = "init"
    /\ op' = "subtree_size"
    /\ args' = <<lnk>>
    /\ res' = subtree_size(trees[1], lnk)
    /\ UNCHANGED <<heap, trees, pars, sample, file, faults, sample_set, matrix, file_names, log_vars>>

CallSubtreeSizes(n) ==
    /\ op = "init"
    /\ op' = "subtree_sizes"
    /\ args' = <<n>>
    /\ \E ndebug \in BOOLEAN : res' = subtree_sizes(trees[1], n, ndebug)
    /\ UNCHANGED <<heap, trees, pars, sample, file, faults, sample_set, matrix, file_names, log_vars>>

CallSubtreeMaxPathHeight(lnk) ==
    /\ op = "init"
    /\ op' = "subtree_max_path_height"
    /\ args' = <<lnk>>
    /\ res' = subtree_max_path_height(trees[1], lnk)
    /\ UNCHANGED <<heap, trees, pars, sample, file, faults, sample_set, matrix, file_names, log_vars>>

CallSubtreeMaxPathHeights(n) ==
    /\ op = "init"
    /\ op' = "subtree_max_path_heights"
    /\ args' = <<n>>
    /\ res' = subtree_max_path_heights(trees[1], n)
    /\ UNCHANGED <<heap, trees, pars, sample, file, faults, sample_set, matrix, file_names, log_vars>>

Next ==
    \/ \E n \in DOMAIN heap.nindex : CallDegree(n)
    \/ \E n \in DOMAIN heap.nindex : CallNodeLinks(n)
    \/ \E a, b \in DOMAIN heap.nindex : CallLowestCommonAncestor(a, b)
    \/ \E openmp \in BOOLEAN : CallLowestCommonAncestors(openmp)
    \/ \E compressed \in BOOLEAN : CallSignMatrix(compressed)
    \/ CallEdgeSides
    \/ \E lnk \in DOMAIN heap.lindex : CallSubtreeSize(lnk)
    \/ \E n \in DOMAIN heap.nindex : CallSubtreeSizes(n)
    \/ \E lnk \in DOMAIN heap.lindex : CallSubtreeMaxPathHeight(lnk)
    \/ \E n \in DOMAIN heap.nindex : CallSubtreeMaxPathHeights(n)

Spec == Init /\ [][Next]_vars

\* Two topologies exist side by side; the functions are called with the
\* first one, and with links and nodes of either.
InitTwoTopologies ==
    /\ \E par_a, par_b \in UNION { ParVecs(n) : n \in 2 .. MaxCrossNodes } :
          LET ha == MakeHeap(par_a, 0, 0, 0)
              lo == LinkCount(par_a)
              no == Cardinality(DOMAIN par_a)
              hb == MakeHeap(par_b, lo, no, no - 1)
          IN  /\ heap = [ f \in DOMAIN ha |-> ha[f] @@ hb[f] ]
              /\ trees = <<MakeTree(par_a, 0, 0, 0), MakeTree(par_b, lo, no, no - 1)>>
              /\ pars = <<par_a, par_b>>
    /\ op = "init"
    /\ file_names = <<>>
    /\ args = <<>>
    /\ res = <<>>
    /\ sample = <<>>
    /\ file = <<>>
    /\ faults = 0
    /\ NoLogging
    /\ sample_set = <<>>
    /\ matrix = <<>>

SpecTwoTopologies == InitTwoTopologies /\ [][Next]_vars


----------------------------------------------------------------------------
(* Samples                                                                 *)

\* PqueryPlacement( edge ): the four values start at 0.0.
PqueryPlacement(edge_index) ==
    [ edge_index |-> edge_index, likelihood |-> 0, like_weight_ratio |-> 0,
      proximal_length |-> 0, pendant_length |-> 0 ]

\* Pquery::add_name( name ): the multiplicity defaults to 1.0.
default_multiplicity == 1

PqueryName(name) == [ name |-> name, multiplicity |-> default_multiplicity ]

\* The Samples given to save: the shape (numbers of placements and names of
\* each Pquery) is free; the values are told apart by position, a double is
\* its 64 bit pattern (as a number), a name a string of character codes.
SamplePlacement(par, q, p) ==
    [ edge_index        |-> (q + p) % (Cardinality(DOMAIN par) - 1),
      likelihood        |-> 256 * q + p,
      like_weight_ratio |-> 16 * q + 4 * p + 1,
      proximal_length   |-> 65536 * p + q,
      pendant_length    |-> (q - 1) * (p + 2) ]

SampleName(q, j) ==
    [ name |-> [i \in 1 .. j - 1 |-> 96 + q + i], multiplicity |-> 1 + j ]

Samples ==
    { [ tree |-> par,
        pqueries |-> [q \in 1 .. Len(shape) |->
            [ placements |-> [p \in 1 .. shape[q][1] |-> SamplePlacement(par, q, p)],
              names      |-> [j \in 1 .. shape[q][2] |-> SampleName(q, j)] ]] ] :
      par \in { f \in UNION { ParVecs(n) : n \in 2 .. MaxSampleNodes } : f[0] = 0 },
      shape \in UNION { [1 .. k -> (0 .. MaxPlacements) \X (0 .. MaxNames)] :
                        k \in 0 .. MaxPqueries } }

----------------------------------------------------------------------------
(* utils::Serializer and utils::Deserializer: a file is a sequence of      *)
(* bytes; integers and doubles are stored as their bytes in memory, least  *)
(* significant first; a string is its length (size_t) and its characters   *)

size_t_width == 8
double_width == 8

RECURSIVE put_int(_, _)
put_int(v, width) ==
    IF width = 0 THEN <<>> ELSE <<v % 256>> \o put_int(v \div 256, width - 1)
put_float(v) == put_int(v, double_width)
put_string(str) == put_int(Len(str), size_t_width) \o str

RECURSIVE get_int_at(_, _, _)
\* The number stored in the width bytes after position pos.
get_int_at(bytes, pos, width) ==
    IF width = 0 THEN 0
    ELSE bytes[pos + 1] + 256 * get_int_at(bytes, pos + 1, width - 1)

\* A cursor is <<bytes, position, last value read>>.
get_int(des, width) == <<des[1], des[2] + width, get_int_at(des[1], des[2], width)>>
get_float(des) == get_int(des, double_width)
get_raw_string(des, n) == <<des[1], des[2] + n, SubSeq(des[1], des[2] + 1, des[2] + n)>>
get_string(des) ==
    LET len == get_int(des, size_t_width) IN get_raw_string(len, len[3])
finished(des) == des[2] >= Len(des[1])

\* PlacementTreeNewickWriter / PlacementTreeNewickReader: the text of a tree
\* names, for every node, its parent; reading it rebuilds the topology.
newick_write(par) == [i \in 1 .. Cardinality(DOMAIN par) |-> 48 + par[i - 1]]
newick_read(str)  == [v \in 0 .. Len(str) - 1 |-> str[v + 1] - 48]

----------------------------------------------------------------------------
(* SampleSerializer                                                        *)

\* char magic[] = "BPLACE\0\0";
magic == <<66, 80, 76, 65, 67, 69, 0, 0>>

\* unsigned char SampleSerializer::version = 1;
version == 1

Concat(seqs) ==
    LET RECURSIVE cat(_)
        cat(i) == IF i = 0 THEN <<>> ELSE cat(i - 1) \o seqs[i]
    IN  cat(Len(seqs))

\* save_placement writing the two lengths in the other order.
save_placement_lengths_swapped(place) ==
    put_int(place.edge_index, size_t_width)
      \o put_float(place.likelihood)
      \o put_float(place.like_weight_ratio)
      \o put_float(place.pendant_length)
      \o put_float(place.proximal_length)

save_placement(place) ==
    put_int(place.edge_index, size_t_width)
      \o put_float(place.likelihood)
      \o put_float(place.like_weight_ratio)
      \o put_float(place.proximal_length)
      \o put_float(place.pendant_length)

save_name(name) == put_string(name.name) \o put_float(name.multiplicity)

save_pquery(pqry) ==
    put_int(Len(pqry.placements), size_t_width)
      \o Concat([p \in DOMAIN pqry.placements |-> save_placement(pqry.placements[p])])
      \o put_int(Len(pqry.names), size_t_width)
      \o Concat([j \in DOMAIN pqry.names |-> save_name(pqry.names[j])])

\* SampleSerializer::save( map, file_name ): the bytes of the file.
save(map) ==
    magic
      \o put_int(version, 1)
      \o put_string(newick_write(map.tree))
      \o put_int(Len(map.pqueries), size_t_width)
      \o Concat([q \in DOMAIN map.pqueries |-> save_pquery(map.pqueries[q])])

RECURSIVE strncmp(_, _, _, _)
\* strncmp( s1, s2, n ) = 0, comparing from character i on: the comparison
\* ends at the first difference, after a terminating null character (a
\* position past the end of the string holds one), or after n characters.
strncmp(s1, s2, i, n) ==
    LET c1 == IF i <= Len(s1) THEN s1[i] ELSE 0
        c2 == IF i <= Len(s2) THEN s2[i] ELSE 0
    IN  IF i > n THEN TRUE
        ELSE IF c1 # c2 THEN FALSE
        ELSE IF c1 = 0 THEN TRUE
        ELSE strncmp(s1, s2, i + 1, n)

RECURSIVE load_placements(_, _, _)
\* for( p = 0; p < num_place; ++p ): <<cursor, placements, failed>>
load_placements(des, num_place, tree) ==
    IF num_place = 0 THEN <<des, <<>>, FALSE>>
    ELSE LET edge_idx == get_int(des, size_t_width)
             f1 == get_float(edge_idx)
             f2 == get_float(f1)
             f3 == get_float(f2)
             f4 == get_float(f3)
             rest == load_placements(f4, num_place - 1, tree)
         IN  IF edge_idx[3] >= Cardinality(DOMAIN tree) - 1
             THEN <<des, <<>>, TRUE>>
             ELSE << rest[1],
                     << [PqueryPlacement(edge_idx[3]) EXCEPT
                            !.likelihood = f1[3], !.like_weight_ratio = f2[3],
                            !.proximal_length = f3[3], !.pendant_length = f4[3]] >>
                       \o rest[2],
                     rest[3] >>

RECURSIVE load_names(_, _)
\* for( n = 0; n < num_names; ++n ): auto name = pqry.add_name( ... ) copies
\* the added name, and the multiplicity read is stored in the copy.
load_names(des, num_names) ==
    IF num_names = 0 THEN <<des, <<>>>>
    ELSE LET str == get_string(des)
             mult == get_float(str)
             rest == load_names(mult, num_names - 1)
         IN  <<rest[1], <<PqueryName(str[3])>> \o rest[2]>>

RECURSIVE load_pqueries(_, _, _)
load_pqueries(des, num_pqueries, tree) ==
    IF num_pqueries = 0 THEN <<des, <<>>, FALSE>>
    ELSE LET num_place == get_int(des, size_t_width)
             places == load_placements(num_place, num_place[3], tree)
             num_names == get_int(places[1], size_t_width)
             names == load_names(num_names, num_names[3])
             rest == load_pqueries(names[1], num_pqueries - 1, tree)
         IN  IF places[3] THEN <<des, <<>>, TRUE>>
             ELSE << rest[1],
                     <<[placements |-> places[2], names |-> names[2]]>> \o rest[2],
                     rest[3] >>

\* SampleSerializer::load( file_name )
load(bytes) ==
    LET m == get_raw_string(<<bytes, 0, <<>>>>, 8)
        ver == get_int(m, 1)
        tree_string == get_string(ver)
        tree == newick_read(tree_string[3])
        num_pqueries == get_int(tree_string, size_t_width)
        pqs == load_pqueries(num_pqueries, num_pqueries[3], tree)
    IN  IF ~strncmp(m[3], magic, 1, 8) THEN Throw("invalid_argument: Wrong file format")
        ELSE IF ver[3] # version THEN Throw("invalid_argument: Wrong serialization version")
        ELSE IF pqs[3] THEN Throw("out_of_range")
        ELSE IF ~finished(pqs[1])
        THEN Throw("invalid_argument: File longer than expected")
        ELSE Ok([tree |-> tree, pqueries |-> pqs[2]])

\* A Sample is saved and the file is loaded, as written or after up to
\* MaxFaults changes: bytes of its header overwritten, bytes appended.
InitSerializer ==
    /\ sample \in Samples
    /\ file = <<>>
    /\ faults = 0
    /\ NoLogging
    /\ sample_set = <<>>
    /\ matrix = <<>>
    /\ op = "init"
    /\ file_names = <<>>
    /\ args = <<>>
    /\ res = <<>>
    /\ heap = <<>>
    /\ trees = <<>>
    /\ pars = <<>>

Save ==
    /\ op = "init"
    /\ op' = "save"
    /\ file' = save(sample)
    /\ UNCHANGED <<heap, trees, pars, args, res, sample, faults, sample_set, matrix, file_names, log_vars>>

\* Another program writes byte b over the byte at position pos of the header.
Overwrite(pos, b) ==
    /\ op = "save"
    /\ faults < MaxFaults
    /\ file[pos] # b
    /\ file' = [file EXCEPT ![pos] = b]
    /\ faults' = faults + 1
    /\ UNCHANGED <<heap, trees, pars, op, args, res, sample, sample_set, matrix, file_names, log_vars>>

\* Another program appends a byte to the file.
AppendByte(b) ==
    /\ op = "save"
    /\ faults < MaxFaults
    /\ file' = Append(file, b)
    /\ faults' = faults + 1
    /\ UNCHANGED <<heap, trees, pars, op, args, res, sample, sample_set, matrix, file_names, log_vars>>

Load ==
    /\ op = "save"
    /\ op' = "load"
    /\ res' = load(file)
    /\ UNCHANGED <<heap, trees, pars, args, sample, file, faults, sample_set, matrix, file_names, log_vars>>

\* The file is loaded as save wrote it.
NextSerializer ==
    \/ Save
    \/ Load

SpecSerializer == InitSerializer /\ [][NextSerializer]_vars

\* The file is changed between save and load.
NextDamagedFile ==
    \/ Save
    \/ \E pos \in 1 .. 9 : \E b \in {0, 1} : Overwrite(pos, b)
    \/ AppendByte(0)
    \/ Load

SpecDamagedFile == InitSerializer /\ [][NextDamagedFile]_vars

----------------------------------------------------------------------------
(* SampleSerializer::load of several files into a SampleSet                *)

\* Largest number of file names given to load.
MaxFiles == 3

\* utils::file_basename( path ): the part after the last '/' (character 47)
file_basename(path) ==
    LET S == { i \in DOMAIN path : path[i] = 47 }
    IN  IF S = {} THEN path
        ELSE SubSeq(path, (CHOOSE i \in S : \A j \in S : j <= i) + 1, Len(path))

\* utils::file_filename( name ): the part before the last '.' (character 46)
file_filename(name) ==
    LET S == { i \in DOMAIN name : name[i] = 46 }
    IN  IF S = {} THEN name
        ELSE SubSeq(name, 1, (CHOOSE i \in S : \A j \in S : j <= i) - 1)

\* SampleSet::add( sample, name )
add(set, smp, name) == Append(set, [name |-> name, sample |-> smp])

\* The Samples on disk.
SampleA == [ tree |-> [v \in 0 .. 1 |-> 0], pqueries |-> <<>> ]
SampleB ==
    [ tree |-> [v \in 0 .. 2 |-> 0],
      pqueries |-> << [ placements |-> <<SamplePlacement([v \in 0 .. 2 |-> 0], 1, 1)>>,
                         names      |-> << [name |-> <<120>>, multiplicity |-> 1] >> ] >> ]

\* The files on disk, by path: "a.b", "d/b.b", "d/a.c.b", and "c.b", which
\* does not start with the magic bytes.
Disk ==
    (<<97, 46, 98>> :> save(SampleA))
    @@ (<<100, 47, 98, 46, 98>> :> save(SampleB))
    @@ (<<100, 47, 97, 46, 99, 46, 98>> :> save(SampleB))
    @@ (<<99, 46, 98>> :> [save(SampleA) EXCEPT ![1] = 0])

\* SampleSerializer::load( file_name )
load_file(file_name) == load(Disk[file_name])

RECURSIVE load_files_serial(_, _, _)
\* for( auto const& fn : file_names ): <<outcome, sample_set>>; an exception
\* of load leaves the loop.
load_files_serial(names, i, set) ==
    IF i > Len(names) THEN <<Ok(<<>>), set>>
    ELSE LET smp == load_file(names[i])
             name == file_filename(file_basename(names[i]))
         IN  IF smp.status # "ok" THEN <<smp, set>>
             ELSE load_files_serial(names, i + 1, add(set, smp.value, name))

RECURSIVE load_files_parallel_for(_, _, _, _)
\* #pragma omp parallel for: the iterations in the order sched in which they
\* finish, each writing tmp[ i ]; <<tmp, an exception left an iteration>>.
load_files_parallel_for(names, sched, k, tmp) ==
    IF k > Len(sched) THEN <<tmp, FALSE>>
    ELSE LET i == sched[k]
             smp == load_file(names[i])
         IN  IF smp.status # "ok" THEN <<tmp, TRUE>>
             ELSE load_files_parallel_for(names, sched, k + 1, [tmp EXCEPT ![i] = smp.value])

RECURSIVE load_files_move(_, _, _, _)
\* The loop that moves tmp to the target SampleSet.
load_files_move(names, tmp, i, set) ==
    IF i > Len(names) THEN set
    ELSE load_files_move(names, tmp, i + 1,
             add(set, tmp[i], file_filename(file_basename(names[i]))))

\* load( file_names, sample_set ) with GENESIS_OPENMP: an exception that
\* leaves an iteration of the parallel loop ends the program.
load_files_openmp(names, sched, set) ==
    LET tmp0 == [i \in DOMAIN names |-> [tree |-> <<>>, pqueries |-> <<>>]]
        par == load_files_parallel_for(names, sched, 1, tmp0)
    IN  IF par[2] THEN <<Abort, set>>
        ELSE <<Ok(<<>>), load_files_move(names, par[1], 1, set)>>

\* The orders in which n iterations can finish.
FinishOrders(n) ==
    { f \in [1 .. n -> 1 .. n] : \A i, j \in 1 .. n : f[i] = f[j] => i = j }

InitLoadFiles ==
    /\ \E n \in 0 .. MaxFiles : file_names \in [1 .. n -> DOMAIN Disk]
    /\ sample_set \in { <<>>, add(<<>>, SampleA, <<122>>) }
    /\ heap = <<>>
    /\ trees = <<>>
    /\ pars = <<>>
    /\ op = "init"
    /\ args = <<>>
    /\ res = <<>>
    /\ sample = <<>>
    /\ file = <<>>
    /\ faults = 0
    /\ NoLogging
    /\ matrix = <<>>

\* args keeps the SampleSet as it was given.
LoadFilesSerial ==
    /\ op = "init"
    /\ op' = "load_files_serial"
    /\ args' = <<sample_set>>
    /\ res' = load_files_serial(file_names, 1, sample_set)[1]
    /\ sample_set' = load_files_serial(file_names, 1, sample_set)[2]
    /\ UNCHANGED <<heap, trees, pars, sample, file, faults, matrix, file_names, log_vars>>

LoadFilesOpenmp(sched) ==
    /\ op = "init"
    /\ op' = "load_files_openmp"
    /\ args' = <<sample_set, sched>>
    /\ res' = load_files_openmp(file_names, sched, sample_set)[1]
    /\ sample_set' = load_files_openmp(file_names, sched, sample_set)[2]
    /\ UNCHANGED <<heap, trees, pars, sample, file, faults, matrix, file_names, log_vars>>

NextLoadFiles ==
    \/ LoadFilesSerial
    \/ \E sched \in FinishOrders(Len(file_names)) : LoadFilesOpenmp(sched)

SpecLoadFiles == InitLoadFiles /\ [][NextLoadFiles]_vars

----------------------------------------------------------------------------
(* Doubles of the placement functions: a number n / d in lowest terms,     *)
(* d > 0; an infinity n / 0, n = 1 or n = -1; or not-a-number              *)

RECURSIVE GCD(_, _)
GCD(a, b) == IF b = 0 THEN a ELSE GCD(b, a % b)

Abs(x) == IF x < 0 THEN 0 - x ELSE x
Sgn(x) == IF x < 0 THEN 0 - 1 ELSE IF x > 0 THEN 1 ELSE 0

NaN == [nan |-> TRUE, n |-> 0, d |-> 0]

Num(n, d) ==
    LET g == GCD(Abs(n), Abs(d))
    IN  [nan |-> FALSE, n |-> Sgn(d) * (Abs(n) \div g) * Sgn(n), d |-> Abs(d) \div g]

\* a / b in double arithmetic.
Div(a, b) ==
    IF b = 0 THEN (IF a = 0 THEN NaN ELSE [nan |-> FALSE, n |-> Sgn(a), d |-> 0])
    ELSE Num(a, b)

\* x < y, false when one of them is not a number
Less(x, y) == ~x.nan /\ ~y.nan /\ x # y /\
    (IF x.d = 0 THEN x.n < 0 ELSE IF y.d = 0 THEN y.n > 0 ELSE x.n * y.d < y.n * x.d)

----------------------------------------------------------------------------
(* Samples with placement mass                                             *)

\* A Sample on the tree par: Pquery q has one placement, of
\* like_weight_ratio 1 on the edge on_edge[q], and one name of multiplicity q;
\* the node names and the edge_nums are shifted by name_shift and num_shift.
MassSample(par, on_edge, name_shift, num_shift) ==
    [ tree       |-> par,
      node_names |-> [v \in DOMAIN par |-> <<65 + v + name_shift>>],
      edge_nums  |-> [e \in 0 .. Cardinality(DOMAIN par) - 2 |-> e + num_shift],
      pqueries   |-> [q \in DOMAIN on_edge |->
          [ placements |-> << [PqueryPlacement(on_edge[q]) EXCEPT
                                  !.like_weight_ratio = 1] >>,
            names      |-> << [name |-> <<96 + q>>, multiplicity |-> q] >> ]] ]

RECURSIVE SumSeq(_)
SumSeq(seq) == IF seq = <<>> THEN 0 ELSE seq[1] + SumSeq(Tail(seq))

\* total_multiplicity( pquery )
total_multiplicity(pqry) ==
    SumSeq([j \in DOMAIN pqry.names |-> pqry.names[j].multiplicity])

\* placement_mass_per_edges_with_multiplicities( sample ): by edge index, the
\* sum of like_weight_ratio times the multiplicity of the Pquery.
placement_mass_per_edges_with_multiplicities(smp) ==
    [ e \in 0 .. Cardinality(DOMAIN smp.tree) - 2 |->
        SumSeq([q \in DOMAIN smp.pqueries |->
            total_multiplicity(smp.pqueries[q]) *
            SumSeq([p \in DOMAIN smp.pqueries[q].placements |->
                IF smp.pqueries[q].placements[p].edge_index = e
                THEN smp.pqueries[q].placements[p].like_weight_ratio ELSE 0])]) ]

----------------------------------------------------------------------------
(* Postorder traversal of a tree                                           *)

RECURSIVE postorder_subtree(_)
RECURSIVE postorder_children(_, _)
postorder_children(start, l) ==
    IF l = start THEN <<>>
    ELSE postorder_subtree(outer(l)) \o postorder_children(start, next(l))

\* The subtree entered at lnk: the subtrees behind its other links, then lnk.
postorder_subtree(lnk) == postorder_children(lnk, next(lnk)) \o <<lnk>>

\* postorder( tree ): the links of the iterations; each node is visited after
\* the subtrees below it, with the link that points towards the root; the
\* last iteration is the root, with the root link.
postorder(t) ==
    LET r == root_link(t)
    IN  postorder_subtree(outer(r)) \o postorder_children(r, next(r)) \o <<r>>

----------------------------------------------------------------------------
(* Edge PCA: imbalance vector                                              *)

RECURSIVE epca_round_sum(_, _, _, _)
\* while( round_link != &tree_it.link() ): <<round_sum, assertions hold>>
epca_round_sum(start, round_link, mass_sum, link_masses) ==
    IF round_link = start THEN <<0, TRUE>>
    ELSE LET rest == epca_round_sum(start, next(round_link), mass_sum, link_masses)
             idx  == heap.lindex[round_link]
         IN  << (mass_sum - link_masses[idx]) + rest[1],
                link_masses[idx] >= 0 /\ rest[2] >>

\* One iteration of the loop over postorder( sample.tree() ) at the link lnk;
\* st holds link_masses, vec and whether all assertions held so far.
epca_imbalance_step(t, masses, mass_sum, normalize, lnk, st) ==
    LET cur_idx == heap.lindex[lnk]
        out_idx == heap.lindex[outer(lnk)]
        e_idx   == heap.eindex[edge(lnk)]
        round   == epca_round_sum(lnk, next(lnk), mass_sum, st.link_masses)
        cur_mass == IF is_leaf(lnk) THEN 0 ELSE Max(0, round[1])
        out_mass == Max(0, mass_sum - cur_mass - masses[e_idx])
        imbalance == cur_mass - out_mass
        normalizer == mass_sum - masses[e_idx]
    IN  [ link_masses |-> [st.link_masses EXCEPT ![cur_idx] = cur_mass,
                                                  ![out_idx] = out_mass],
          vec |-> [st.vec EXCEPT ![e_idx] = IF normalize THEN Div(imbalance, normalizer)
                                            ELSE Num(imbalance, 1)],
          asserts |-> /\ st.asserts
                      /\ st.link_masses[cur_idx] < 0
                      /\ st.link_masses[out_idx] < 0
                      /\ heap.lindex[link(node(link_at(t, cur_idx)))] = cur_idx
                      /\ e_idx = heap.eindex[edge(link_at(t, cur_idx))]
                      /\ heap.lindex[primary_link(edge(lnk))] = out_idx
                      /\ heap.lindex[secondary_link(edge(lnk))] = cur_idx
                      /\ (is_leaf(lnk) \/ round[2])
                      /\ (normalize => normalizer > 0) ]

RECURSIVE epca_imbalance_loop(_, _, _, _, _, _, _)
\* for( auto tree_it : postorder( sample.tree() )): the last iteration is
\* skipped.
epca_imbalance_loop(t, masses, mass_sum, normalize, tour, i, st) ==
    IF i >= Len(tour) THEN st
    ELSE epca_imbalance_loop(t, masses, mass_sum, normalize, tour, i + 1,
             epca_imbalance_step(t, masses, mass_sum, normalize, tour[i], st))

\* epca_imbalance_vector( sample, normalize ), the tree of the sample being t.
epca_imbalance_vector(smp, t, normalize, ndebug) ==
    LET masses   == placement_mass_per_edges_with_multiplicities(smp)
        mass_sum == SumSeq([k \in 1 .. edge_count(t) |-> masses[k - 1]])
        fin == epca_imbalance_loop(t, masses, mass_sum, normalize, postorder(t), 1,
                   [ link_masses |-> [l \in 0 .. link_count(t) - 1 |-> 0 - 1],
                     vec         |-> [e \in 0 .. edge_count(t) - 1 |-> Num(0, 1)],
                     asserts     |-> TRUE ])
    IN  IF ~ndebug /\ ~fin.asserts THEN Abort ELSE Ok(fin.vec)


----------------------------------------------------------------------------
(* Edge PCA: imbalance matrix                                              *)

RECURSIVE preorder_links(_)
RECURSIVE preorder_links_children(_, _)
preorder_links_children(start, l) ==
    IF l = start THEN <<>>
    ELSE preorder_links(outer(l)) \o preorder_links_children(start, next(l))

preorder_links(lnk) == <<lnk>> \o preorder_links_children(lnk, next(lnk))

\* preorder( tree ): the links of the iterations, the root link first.
preorder_tree(t) ==
    LET r == root_link(t)
    IN  <<r>> \o preorder_links(outer(r)) \o preorder_links_children(r, next(r))

\* node_comparator that does not look at the names
node_comparator_index_only(smp_l, node_l, smp_r, node_r) ==
    heap.nindex[node_l] = heap.nindex[node_r]

\* node_comparator of all_identical_trees
node_comparator(smp_l, node_l, smp_r, node_r) ==
    /\ smp_l.node_names[heap.nindex[node_l]] = smp_r.node_names[heap.nindex[node_r]]
    /\ heap.nindex[node_l] = heap.nindex[node_r]

\* edge_comparator of all_identical_trees
edge_comparator(smp_l, edge_l, smp_r, edge_r) ==
    /\ smp_l.edge_nums[heap.eindex[edge_l]] = smp_r.edge_nums[heap.eindex[edge_r]]
    /\ heap.nindex[primary_node(edge_l)] = heap.nindex[primary_node(edge_r)]
    /\ heap.nindex[secondary_node(edge_l)] = heap.nindex[secondary_node(edge_r)]

\* equal( tree_l, tree_r, node_comparator, edge_comparator ): the same
\* numbers of links, nodes and edges, and at every step of a preorder
\* traversal of both trees nodes of the same degree that compare equal, with
\* edges that compare equal.
equal_trees(smp_l, t_l, smp_r, t_r) ==
    /\ link_count(t_l) = link_count(t_r)
    /\ node_count(t_l) = node_count(t_r)
    /\ edge_count(t_l) = edge_count(t_r)
    /\ LET it_l == preorder_tree(t_l)
           it_r == preorder_tree(t_r)
       IN  /\ Len(it_l) = Len(it_r)
           /\ \A i \in DOMAIN it_l :
                /\ degree(node(it_l[i])) = degree(node(it_r[i]))
                /\ node_comparator(smp_l, node(it_l[i]), smp_r, node(it_r[i]))
                /\ edge_comparator(smp_l, edge(it_l[i]), smp_r, edge(it_r[i]))

\* all_identical_trees( sample_set ): equal( tree_set( sample_set ), ... )
\* compares each tree of the set with the one before it.
all_identical_trees(set, ts) ==
    \A i \in 2 .. Len(set) : equal_trees(set[i - 1], ts[i - 1], set[i], ts[i])

\* inner_edge_indices( tree )
inner_edge_indices(t) ==
    LET S == { i \in 0 .. edge_count(t) - 1 : is_inner_node(secondary_node(edge_at(t, i))) }
    IN  [k \in 0 .. Cardinality(S) - 1 |->
            CHOOSE i \in S : Cardinality({ j \in S : j < i }) = k]

\* inner_edge_count( tree )
inner_edge_count(t) ==
    Cardinality({ i \in 0 .. edge_count(t) - 1 :
        /\ is_inner_node(primary_node(edge_at(t, i)))
        /\ is_inner_node(secondary_node(edge_at(t, i))) })

\* utils::almost_equal_relative( x, -1.0 ), on exact numbers
almost_equal_minus_one(x) == x = Num(0 - 1, 1)

\* The loop over the samples: for each sample the row of the matrix, or the
\* abort of the iteration.
epca_imbalance_rows(set, ts, include_leaves, normalize, ndebug) ==
    [ s \in 1 .. Len(set) |->
        LET r == epca_imbalance_vector(set[s], ts[s], normalize, ndebug)
            idcs == inner_edge_indices(ts[1])
        IN  IF r.status # "ok" THEN r
            ELSE IF include_leaves
            THEN IF ~ndebug /\ ~( /\ Cardinality(DOMAIN r.value) = edge_count(ts[1])
                                  /\ \A i \in DOMAIN r.value :
                                       \/ ~is_leaf_node(secondary_node(edge_at(ts[s], i)))
                                       \/ almost_equal_minus_one(r.value[i]) )
                 THEN Abort
                 ELSE r
            ELSE IF ~ndebug /\ ~( /\ Cardinality(DOMAIN r.value) = edge_count(ts[1])
                                  /\ Cardinality(DOMAIN r.value) > Cardinality(DOMAIN idcs) )
                 THEN Abort
                 ELSE Ok([i \in DOMAIN idcs |-> r.value[idcs[i]]]) ]

\* epca_imbalance_matrix( samples, include_leaves, normalize ): the trees of
\* the samples being ts.  The rows are written by an omp parallel for, each
\* iteration writing its own row.
epca_imbalance_matrix(set, ts, include_leaves, normalize, ndebug) ==
    IF Len(set) = 0 THEN Ok(Matrix(0, 0, 0))
    ELSE IF ~all_identical_trees(set, ts) THEN Throw("runtime_error")
    ELSE LET rows == epca_imbalance_rows(set, ts, include_leaves, normalize, ndebug)
             cols == IF include_leaves THEN edge_count(ts[1])
                     ELSE Cardinality(DOMAIN inner_edge_indices(ts[1]))
         IN  IF \E s \in DOMAIN rows : rows[s].status # "ok" THEN Abort
             ELSE Ok([rc \in (0 .. Len(set) - 1) \X (0 .. cols - 1) |->
                        rows[rc[1] + 1].value[rc[2]]])


----------------------------------------------------------------------------
(* Edge PCA: splitify transform, and epca                                  *)

\* utils::signum( x )
signum(x) == IF x.nan THEN 0 ELSE Sgn(x.n)

RECURSIVE IntPow(_, _)
IntPow(b, e) == IF e = 0 THEN 1 ELSE b * IntPow(b, e - 1)

\* std::pow( std::abs( x ), kappa ) for a whole number kappa > 0
pow_abs(x, kappa) ==
    IF x.nan THEN NaN
    ELSE [nan |-> FALSE, n |-> IntPow(Abs(x.n), kappa), d |-> IntPow(x.d, kappa)]

\* x times the sign sg
times_sign(sg, x) == IF x.nan THEN NaN ELSE [x EXCEPT !.n = sg * x.n]

\* The transform without the test of kappa.
epca_splitify_transform_unchecked(imbalance_matrix, kappa) ==
    IF kappa = 1 THEN <<Ok(<<>>), imbalance_matrix, file_names>>
    ELSE <<Ok(<<>>), [rc \in DOMAIN imbalance_matrix |-> Num(signum(imbalance_matrix[rc]), 1)]>>

\* The transform that applies the full formula for every kappa.
epca_splitify_transform_full(imbalance_matrix, kappa) ==
    IF kappa < 0 THEN <<Throw("runtime_error"), imbalance_matrix, file_names>>
    ELSE <<Ok(<<>>), [rc \in DOMAIN imbalance_matrix |->
                        times_sign(signum(imbalance_matrix[rc]),
                                   pow_abs(imbalance_matrix[rc], kappa + 1))]>>

\* epca_splitify_transform( imbalance_matrix, kappa ): <<outcome, the matrix
\* afterwards>>
epca_splitify_transform(imbalance_matrix, kappa) ==
    IF kappa < 0 THEN <<Throw("runtime_error"), imbalance_matrix, file_names>>
    ELSE IF kappa = 0
    THEN <<Ok(<<>>), [rc \in DOMAIN imbalance_matrix |->
                        Num(signum(imbalance_matrix[rc]), 1)]>>
    ELSE IF kappa = 1 THEN <<Ok(<<>>), imbalance_matrix, file_names>>
    ELSE <<Ok(<<>>), [rc \in DOMAIN imbalance_matrix |->
                        times_sign(signum(imbalance_matrix[rc]),
                                   pow_abs(imbalance_matrix[rc], kappa))]>>

\* The numbers of rows and of columns of a matrix of known row count.
MatrixCols(m, rows) == IF rows = 0 THEN 0 ELSE Cardinality(DOMAIN m) \div rows

\* filter_constant_columns( data, epsilon ): the indices of the columns whose
\* largest and smallest value differ by more than epsilon, in order.
filter_constant_columns(data, rows, epsilon) ==
    LET cols == MatrixCols(data, rows)
        S == { c \in 0 .. cols - 1 :
                 \E r1, r2 \in 0 .. rows - 1 :
                    LET x == data[<<r1, c>>]
                        y == data[<<r2, c>>]
                    IN  /\ ~x.nan /\ ~y.nan /\ x.d > 0 /\ y.d > 0
                        /\ y.n * x.d - x.n * y.d > epsilon * x.d * y.d }
    IN  [k \in 0 .. Cardinality(S) - 1 |->
            CHOOSE i \in S : Cardinality({ j \in S : j < i }) = k]

\* The matrix with the columns keep only.
select_columns(data, rows, keep) ==
    [rc \in (0 .. rows - 1) \X DOMAIN keep |-> data[<<rc[1], keep[rc[2]]>>]]

\* utils::principal_component_analysis( data, components, kCovariance ): the
\* sizes of the result.
principal_component_analysis(data, rows, components) ==
    [ eigenvalues_size  |-> components,
      eigenvectors_rows |-> MatrixCols(data, rows),
      eigenvectors_cols |-> components,
      projection_rows   |-> rows,
      projection_cols   |-> components ]

\* epca( samples, ... ) from the line after the call of epca_imbalance_matrix
\* on, im being the outcome of that call.
epca_of_matrix(set, ts, kappa, epsilon, components, ndebug, im) ==
    LET rows == Len(set)
        idcs == inner_edge_indices(ts[1])
        not_filtered_indices == filter_constant_columns(im.value, rows, epsilon)
        filtered == select_columns(im.value, rows, not_filtered_indices)
        transformed == epca_splitify_transform(filtered, kappa)
        edge_indices == [k \in DOMAIN not_filtered_indices |->
                            idcs[not_filtered_indices[k]]]
        cols == Cardinality(DOMAIN not_filtered_indices)
        comps == IF components = 0 \/ components > cols THEN cols ELSE components
    IN  IF im.status # "ok" THEN im
        ELSE IF ~ndebug /\ ~( /\ MatrixCols(im.value, rows) = inner_edge_count(ts[1])
                              /\ MatrixCols(im.value, rows) = Cardinality(DOMAIN idcs) )
        THEN Abort
        ELSE IF transformed[1].status # "ok" THEN transformed[1]
        ELSE Ok([ edge_indices |-> edge_indices,
                  pca |-> principal_component_analysis(transformed[2], rows, comps) ])

\* epca( samples, kappa, epsilon, components ), the trees of the samples
\* being ts; the imbalance matrix is computed once.
epca(set, ts, kappa, epsilon, components, ndebug) ==
    IF Len(set) = 0
    THEN Ok([edge_indices |-> <<>>, pca |-> principal_component_analysis(<<>>, 0, 0)])
    ELSE CHOOSE result \in
            { epca_of_matrix(set, ts, kappa, epsilon, components, ndebug, im) :
                im \in { epca_imbalance_matrix(set, ts, FALSE, TRUE, ndebug) } } : TRUE

----------------------------------------------------------------------------
(* Calls of the Edge PCA functions on a SampleSet                          *)

EpcaTrees == { f \in UNION { ParVecs(n) : n \in 2 .. MaxEpcaNodes } : f[0] = 0 }

\* Samples that differ from smp in one respect: none, the last Pquery
\* missing, a node name, an edge_num, the topology, the size of the tree.
SampleVariants(smp) ==
    LET par == smp.tree
        n   == Cardinality(DOMAIN par)
        oe  == [q \in DOMAIN smp.pqueries |-> smp.pqueries[q].placements[1].edge_index]
        star(m) == [v \in 0 .. m - 1 |-> 0]
        chain(m) == [v \in 0 .. m - 1 |-> IF v = 0 THEN 0 ELSE v - 1]
    IN  { smp,
          MassSample(par, SubSeq(oe, 1, Len(oe) - 1), 0, 0),
          [smp EXCEPT !.node_names[n - 1] = <<64>>],
          [smp EXCEPT !.edge_nums[0] = n],
          MassSample(IF par = star(n) THEN chain(n) ELSE star(n), <<>>, 0, 0),
          MassSample(star(n + 1), <<>>, 0, 0) }

\* The SampleSets of at most max_samples Samples whose first Sample has at
\* most max_pqueries Pqueries: the empty set, or a first Sample, copies of
\* it, and a variant of it.
SampleSetsUpTo(max_pqueries, max_samples) ==
    LET Firsts == UNION { { MassSample(par, on_edge, 0, 0) :
                              on_edge \in UNION { [1 .. k -> 0 .. Cardinality(DOMAIN par) - 2] :
                                                    k \in 0 .. max_pqueries } } :
                          par \in EpcaTrees }
    IN  {<<>>} \cup
        UNION { { [k \in 1 .. len |-> IF k = len /\ len > 1 THEN v ELSE f] :
                    len \in 1 .. max_samples, v \in SampleVariants(f) } :
                f \in Firsts }

SampleSetsOf(max_pqueries) == SampleSetsUpTo(max_pqueries, MaxEpcaSamples)

RECURSIVE HeapOf(_, _, _, _, _)
\* The arenas of the trees ps[i], ps[i+1], ..., one after the other.
HeapOf(ps, i, lo, no, eo) ==
    IF i > Len(ps) THEN MakeHeap(<<>>, 0, 0, 0)
    ELSE LET h == MakeHeap(ps[i], lo, no, eo)
             rest == HeapOf(ps, i + 1, lo + LinkCount(ps[i]),
                            no + Cardinality(DOMAIN ps[i]),
                            eo + Cardinality(DOMAIN ps[i]) - 1)
         IN  [f \in DOMAIN h |-> h[f] @@ rest[f]]

RECURSIVE TreesOf(_, _, _, _, _)
TreesOf(ps, i, lo, no, eo) ==
    IF i > Len(ps) THEN <<>>
    ELSE <<MakeTree(ps[i], lo, no, eo)>>
           \o TreesOf(ps, i + 1, lo + LinkCount(ps[i]),
                      no + Cardinality(DOMAIN ps[i]),
                      eo + Cardinality(DOMAIN ps[i]) - 1)


InitEpcaOf(Sets) ==
    /\ \E set \in Sets :
          LET ps == [k \in DOMAIN set |-> set[k].tree]
          IN  /\ sample_set = set
              /\ pars = ps
              /\ heap = HeapOf(ps, 1, 0, 0, 0)
              /\ trees = TreesOf(ps, 1, 0, 0, 0)
    /\ op = "init"
    /\ file_names = <<>>
    /\ args = <<>>
    /\ res = <<>>
    /\ sample = <<>>
    /\ file = <<>>
    /\ faults = 0
    /\ NoLogging
    /\ matrix = <<>>

InitEpca == InitEpcaOf(SampleSetsOf(MaxEpcaPqueries))

\* SampleSets with little mass, for the comparison of the trees.
InitEpcaTrees == InitEpcaOf(SampleSetsOf(1))

CallEpcaImbalanceVector(s, normalize) ==
    /\ op = "init"
    /\ s \in DOMAIN sample_set
    /\ \E ndebug \in BOOLEAN :
          /\ args' = <<s, normalize, ndebug>>
          /\ res' = epca_imbalance_vector(sample_set[s], trees[s], normalize, ndebug)
    /\ op' = "epca_imbalance_vector"
    /\ UNCHANGED <<heap, trees, pars, sample, file, faults, sample_set, matrix, file_names, log_vars>>

CallEpcaImbalanceMatrix(include_leaves, normalize) ==
    /\ op = "init"
    /\ \E ndebug \in BOOLEAN :
          /\ args' = <<include_leaves, normalize, ndebug>>
          /\ res' = epca_imbalance_matrix(sample_set, trees, include_leaves, normalize, ndebug)
    /\ op' = "epca_imbalance_matrix"
    /\ UNCHANGED <<heap, trees, pars, sample, file, faults, sample_set, matrix, file_names, log_vars>>

CallEpca(kappa, epsilon, components) ==
    /\ op = "init"
    /\ \E ndebug \in BOOLEAN :
          /\ args' = <<kappa, epsilon, components, ndebug>>
          /\ res' = epca(sample_set, trees, kappa, epsilon, components, ndebug)
    /\ op' = "epca"
    /\ UNCHANGED <<heap, trees, pars, sample, file, faults, sample_set, matrix, file_names, log_vars>>

NextEpca ==
    \/ \E s \in 1 .. MaxEpcaSamples, normalize \in BOOLEAN :
          CallEpcaImbalanceVector(s, normalize)
    \/ \E include_leaves, normalize \in BOOLEAN :
          CallEpcaImbalanceMatrix(include_leaves, normalize)
    \/ \E kappa \in {0 - 1, 1, 2}, epsilon \in {0, 1}, components \in {0, 1} :
          CallEpca(kappa, epsilon, components)

SpecEpca == InitEpca /\ [][NextEpca]_vars

NextEpcaMatrix ==
    \E include_leaves, normalize \in BOOLEAN :
        CallEpcaImbalanceMatrix(include_leaves, normalize)

SpecEpcaMatrix == InitEpcaTrees /\ [][NextEpcaMatrix]_vars

\* The matrices given to epca_splitify_transform: one row of entries drawn
\* from a few values of either sign.
SplitifyValues == { Num(0 - 2, 1), Num(0 - 1, 2), Num(0, 1), Num(1, 3), Num(3, 1) }

InitSplitify ==
    /\ \E cols \in 1 .. MaxMatrixCols :
          matrix \in [ {0} \X (0 .. cols - 1) -> SplitifyValues ]
    /\ heap = MakeHeap(<<>>, 0, 0, 0)
    /\ trees = <<>>
    /\ pars = <<>>
    /\ op = "init"
    /\ file_names = <<>>
    /\ args = <<>>
    /\ res = <<>>
    /\ sample = <<>>
    /\ file = <<>>
    /\ faults = 0
    /\ NoLogging
    /\ sample_set = <<>>

\* The matrix is changed in place; args keeps the matrix as it was given.
CallEpcaSplitifyTransform(kappa) ==
    /\ op = "init"
    /\ op' = "epca_splitify_transform"
    /\ args' = <<kappa, matrix, file_names>>
    /\ res' = epca_splitify_transform(matrix, kappa)[1]
    /\ matrix' = epca_splitify_transform(matrix, kappa)[2]
    /\ UNCHANGED <<heap, trees, pars, sample, file, faults, sample_set, file_names, log_vars>>

NextSplitify == \E kappa \in 0 - 1 .. 2 : CallEpcaSplitifyTransform(kappa)

SpecSplitify == InitSplitify /\ [][NextSplitify]_vars


----------------------------------------------------------------------------
(* Merging duplicate Pqueries                                              *)

\* Largest number of Pqueries of a Sample given to merge_duplicates.
MaxMergePqueries == 3

\* x + y and x / k on exact numbers
Add(x, y) == Num(x.n * y.d + y.n * x.d, x.d * y.d)
DivBy(x, k) == Num(x.n, x.d * k)

\* The names of the Pquery pqry, as a set of strings.
NameSet(pqry) == { pqry.names[j].name : j \in DOMAIN pqry.names }

\* The sequence seq without its element at position j.
RemoveAt(seq, j) == SubSeq(seq, 1, j - 1) \o SubSeq(seq, j + 1, Len(seq))

\* The merge of the first pair of Pqueries that share a name, once.
collect_duplicate_pqueries_once(pqs) ==
    LET Pairs == { ij \in (DOMAIN pqs) \X (DOMAIN pqs) :
                     ij[1] < ij[2] /\ NameSet(pqs[ij[1]]) \cap NameSet(pqs[ij[2]]) # {} }
    IN  IF Pairs = {} THEN pqs
        ELSE LET j == CHOOSE j \in DOMAIN pqs :
                        /\ \E i \in DOMAIN pqs : <<i, j>> \in Pairs
                        /\ \A ij \in Pairs : j <= ij[2]
                 i == CHOOSE i \in DOMAIN pqs :
                        <<i, j>> \in Pairs /\ \A k \in DOMAIN pqs : <<k, j>> \in Pairs => i <= k
                 merged == [ placements |-> pqs[i].placements \o pqs[j].placements,
                             names      |-> pqs[i].names \o pqs[j].names ]
             IN  RemoveAt([pqs EXCEPT ![i] = merged], j)

RECURSIVE collect_duplicate_pqueries(_)
\* collect_duplicate_pqueries( smp ): Pqueries that share a name become one
\* Pquery, the earliest of them, until no two Pqueries share a name.
collect_duplicate_pqueries(pqs) ==
    LET Pairs == { ij \in (DOMAIN pqs) \X (DOMAIN pqs) :
                     ij[1] < ij[2] /\ NameSet(pqs[ij[1]]) \cap NameSet(pqs[ij[2]]) # {} }
    IN  IF Pairs = {} THEN pqs
        ELSE collect_duplicate_pqueries(collect_duplicate_pqueries_once(pqs))

RECURSIVE merge_names_loop(_, _, _)
\* The names from position j on, merged into result: a name already there
\* adds its multiplicity, a new name is appended.
merge_names_loop(names, j, result) ==
    IF j > Len(names) THEN result
    ELSE LET S == { k \in DOMAIN result : result[k].name = names[j].name }
         IN  IF S = {} THEN merge_names_loop(names, j + 1, Append(result, names[j]))
             ELSE LET k == CHOOSE k \in S : TRUE
                  IN  merge_names_loop(names, j + 1,
                          [result EXCEPT ![k].multiplicity = @ + names[j].multiplicity])

\* merge_duplicate_names( pquery )
merge_duplicate_names(pqry) ==
    [pqry EXCEPT !.names = merge_names_loop(pqry.names, 1, <<>>)]

RECURSIVE merge_placements_loop(_, _, _)
\* The placements from position j on, merged into units: one unit per edge
\* with the sums of the values and the number of placements summed.
merge_placements_loop(placements, j, units) ==
    IF j > Len(placements) THEN units
    ELSE LET p == placements[j]
             S == { k \in DOMAIN units : units[k].place.edge_index = p.edge_index }
         IN  IF S = {}
             THEN merge_placements_loop(placements, j + 1,
                      Append(units, [place |-> p, count |-> 1]))
             ELSE LET k == CHOOSE k \in S : TRUE
                      u == units[k].place
                  IN  merge_placements_loop(placements, j + 1,
                          [units EXCEPT ![k] =
                              [ place |-> [u EXCEPT
                                   !.likelihood        = Add(@, p.likelihood),
                                   !.like_weight_ratio = Add(@, p.like_weight_ratio),
                                   !.proximal_length   = Add(@, p.proximal_length),
                                   !.pendant_length    = Add(@, p.pendant_length)],
                                count |-> units[k].count + 1 ]])

\* merge_duplicate_placements( pquery ): one placement per edge, with the
\* like_weight_ratio summed and the other values averaged.
merge_duplicate_placements(pqry) ==
    LET units == merge_placements_loop(pqry.placements, 1, <<>>)
    IN  [pqry EXCEPT !.placements =
            [k \in DOMAIN units |->
                [units[k].place EXCEPT
                    !.likelihood      = DivBy(@, units[k].count),
                    !.proximal_length = DivBy(@, units[k].count),
                    !.pendant_length  = DivBy(@, units[k].count)]]]

\* merge_duplicates( smp )
merge_duplicates(smp) ==
    LET pqs == collect_duplicate_pqueries(smp.pqueries)
    IN  [smp EXCEPT !.pqueries =
            [q \in DOMAIN pqs |->
                merge_duplicate_placements(merge_duplicate_names(pqs[q]))]]

\* A placement on the edge e whose four values depend on v.
MergePlacement(e, v) ==
    [PqueryPlacement(e) EXCEPT !.likelihood        = Num(0 - v, 1),
                               !.like_weight_ratio = Num(1, 4),
                               !.proximal_length   = Num(v, 2),
                               !.pendant_length    = Num(v, 3)]

\* The Pqueries of the Samples given to merge_duplicates.
MergePqueries ==
    { [ placements |-> pl, names |-> nm ] :
        pl \in { <<MergePlacement(0, 1)>>,
                 <<MergePlacement(0, 1), MergePlacement(1, 2)>>,
                 <<MergePlacement(1, 3), MergePlacement(1, 2)>> },
        nm \in { << [name |-> <<97>>, multiplicity |-> 1] >>,
                 << [name |-> <<98>>, multiplicity |-> 2] >>,
                 << [name |-> <<98>>, multiplicity |-> 1],
                    [name |-> <<97>>, multiplicity |-> 1] >> } }

InitMerge ==
    /\ \E k \in 0 .. MaxMergePqueries : \E pqs \in [1 .. k -> MergePqueries] :
          sample = [ tree |-> [v \in 0 .. 2 |-> 0], pqueries |-> pqs ]
    /\ heap = MakeHeap(<<>>, 0, 0, 0)
    /\ trees = <<>>
    /\ pars = <<>>
    /\ op = "init"
    /\ file_names = <<>>
    /\ args = <<>>
    /\ res = <<>>
    /\ file = <<>>
    /\ faults = 0
    /\ NoLogging
    /\ sample_set = <<>>
    /\ matrix = <<>>

\* merge_duplicates changes the Sample in place; args keeps the Samples the
\* calls were made on.
MergeDuplicates ==
    /\ Len(args) < 2
    /\ op' = "merge_duplicates"
    /\ args' = Append(args, sample)
    /\ sample' = merge_duplicates(sample)
    /\ res' = Ok(<<>>)
    /\ UNCHANGED <<heap, trees, pars, file, faults, sample_set, matrix, file_names, log_vars>>

NextMerge == MergeDuplicates

SpecMerge == InitMerge /\ [][NextMerge]_vars


----------------------------------------------------------------------------
(* Reference notions, defined on the parent vectors the arena was built    *)
(* from and not on the link structure                                      *)

\* The tree (position in trees) that owns the node at address a.
OwnerOfNode(a) == CHOOSE t \in DOMAIN trees : \E i \in DOMAIN trees[t].nodes_ : trees[t].nodes_[i] = a

RECURSIVE AncOrSelf(_, _, _)
\* a is b or an ancestor of b, in the parent vector par.
AncOrSelf(par, a, b) ==
    IF a = b THEN TRUE
    ELSE IF par[b] = b THEN FALSE
    ELSE AncOrSelf(par, a, par[b])

\* The deepest common ancestor of the nodes with index a and b.
IsDeepestCommon(par, c, a, b) ==
    /\ AncOrSelf(par, c, a)
    /\ AncOrSelf(par, c, b)
    /\ \A d \in DOMAIN par : (AncOrSelf(par, d, a) /\ AncOrSelf(par, d, b)) => AncOrSelf(par, d, c)

----------------------------------------------------------------------------
(* Claims                                                                  *)

\* C1: for two nodes a, b of the same tree lowest_common_ancestor(a, b)
\* returns the node that is a-or-an-ancestor-of-a, b-or-an-ancestor-of-b and
\* deepest such; lca(a, a) = a; if a is an ancestor of b the result is a.
C1_LcaIsDeepestCommonAncestor ==
    (op = "lowest_common_ancestor" /\ OwnerOfNode(args[1]) = OwnerOfNode(args[2])) =>
        LET par == pars[OwnerOfNode(args[1])]
            a == heap.nindex[args[1]]
            b == heap.nindex[args[2]]
        IN  /\ res.status = "ok"
            /\ OwnerOfNode(res.value) = OwnerOfNode(args[1])
            /\ IsDeepestCommon(par, heap.nindex[res.value], a, b)
            /\ (args[1] = args[2] => res.value = args[1])
            /\ (AncOrSelf(par, a, b) => res.value = args[1])

\* C1 witness: an LCA that is neither of the two nodes nor the root.
C1_Witness ==
    /\ op = "lowest_common_ancestor"
    /\ res.status = "ok"
    /\ res.value # args[1]
    /\ res.value # args[2]
    /\ ~is_root(res.value)

\* C2: lowest_common_ancestors(tree) is an n x n matrix whose cell (r, c) is
\* the index of lowest_common_ancestor(node r, node c); it is symmetric and
\* its diagonal is the identity, in the parallel and in the serial build.
C2_LcaMatrix ==
    op = "lowest_common_ancestors" =>
        LET t == trees[1]
            n == node_count(t)
            m == res.value
        IN  /\ res.status = "ok"
            /\ DOMAIN m = (0 .. n - 1) \X (0 .. n - 1)
            /\ \A r, c \in 0 .. n - 1 :
                 /\ m[<<r, c>>] =
                      heap.nindex[lowest_common_ancestor(node_at(t, r), node_at(t, c), TRUE).value]
                 /\ IsDeepestCommon(pars[1], m[<<r, c>>], r, c)
                 /\ m[<<r, c>>] = m[<<c, r>>]
            /\ \A d \in 0 .. n - 1 : m[<<d, d>>] = d

\* C2 witness: a matrix of the parallel build with a cell below the diagonal
\* that holds neither its row, nor its column, nor the root.
C2_Witness ==
    /\ op = "lowest_common_ancestors"
    /\ args[1] = TRUE
    /\ \E r, c \in 0 .. node_count(trees[1]) - 1 :
         /\ r > c
         /\ res.value[<<r, c>>] \notin {r, c, heap.nindex[root_node(trees[1])]}

C2_WitnessSerial ==
    /\ op = "lowest_common_ancestors"
    /\ args[1] = FALSE
    /\ \E r, c \in 0 .. node_count(trees[1]) - 1 :
         /\ r > c
         /\ res.value[<<r, c>>] \notin {r, c, heap.nindex[root_node(trees[1])]}

\* Rooted and bifurcating, on the parent vector: the root has two children,
\* every other node has two children or none.
RootedBifurcating(par) ==
    /\ DOMAIN par # {}
    /\ \A v \in DOMAIN par :
         Cardinality(Children(par, v)) \in (IF par[v] = v THEN {2} ELSE {0, 2})

\* The values val(c), c in cols, are a sign row of node i: all 0 for a leaf;
\* for an inner node +1 below one child, -1 below the other, 0 elsewhere.
SignRow(par, i, cols, val(_)) ==
    IF Children(par, i) = {} THEN \A c \in cols : val(c) = 0
    ELSE \E c1, c2 \in Children(par, i) :
            /\ c1 # c2
            /\ \A c \in cols :
                 val(c) = IF AncOrSelf(par, c1, c) THEN 1
                          ELSE IF AncOrSelf(par, c2, c) THEN 0 - 1
                          ELSE 0

\* Position of x in the increasing enumeration of S.
RankIn(S, x) == Cardinality({ y \in S : y < x })

\* C3: for a rooted, bifurcating tree sign_matrix is an n x n matrix over
\* {-1, 0, +1}; a leaf row is 0; the row of an inner node i has +1 below one
\* child of i, -1 below the other and 0 elsewhere (column i included); the
\* compressed form is this matrix on inner-node rows and leaf columns, both
\* in increasing index order.
C3_SignMatrix ==
    (op = "sign_matrix" /\ RootedBifurcating(pars[1])) =>
        LET par == pars[1]
            N == DOMAIN par
            Inner == { v \in N : Children(par, v) # {} }
            Leaves == N \ Inner
            m == res.value
        IN  /\ res.status = "ok"
            /\ IF args[1]
               THEN /\ DOMAIN m = (0 .. Cardinality(Inner) - 1) \X (0 .. Cardinality(Leaves) - 1)
                    /\ \A i \in Inner :
                         SignRow(par, i, Leaves,
                                 LAMBDA c : m[<<RankIn(Inner, i), RankIn(Leaves, c)>>])
               ELSE /\ DOMAIN m = N \X N
                    /\ \A i \in N : SignRow(par, i, N, LAMBDA c : m[<<i, c>>])
            /\ \A rc \in DOMAIN m : m[rc] \in {0 - 1, 0, 1}

\* C3 witness: a full sign matrix whose row of a non-root inner node holds
\* +1 and -1, and a compressed one with more than one row.
C3_Witness ==
    /\ op = "sign_matrix"
    /\ res.status = "ok"
    /\ ~args[1]
    /\ \E i \in DOMAIN pars[1] :
         /\ pars[1][i] # i
         /\ \E c1, c2 \in DOMAIN pars[1] :
              res.value[<<i, c1>>] = 1 /\ res.value[<<i, c2>>] = 0 - 1

C3_WitnessCompressed ==
    /\ op = "sign_matrix"
    /\ res.status = "ok"
    /\ args[1]
    /\ <<1, 2>> \in DOMAIN res.value
    /\ \E c \in 0 .. 2 : res.value[<<1, c>>] = 0

\* C4 as stated: sign_matrix returns a matrix only for rooted, bifurcating
\* trees; for every other tree it fails with an invalid-argument error.
C4_Original ==
    op = "sign_matrix" =>
        IF RootedBifurcating(pars[1]) THEN res.status = "ok"
        ELSE res = Throw("invalid_argument")

\* C4 amended: for every non-empty tree that is not rooted or not strictly
\* bifurcating sign_matrix fails with an invalid-argument error and returns
\* no matrix; for the empty tree it returns the empty matrix.
C4_SignMatrixRejects ==
    op = "sign_matrix" =>
        IF DOMAIN pars[1] = {} THEN res = Ok(<<>>)
        ELSE IF RootedBifurcating(pars[1]) THEN res.status = "ok"
        ELSE res = Throw("invalid_argument")

\* C4 witness: a tree with a root of degree 2 and a node of degree 4 (or a
\* non-root node of degree 2) is rejected.
C4_Witness ==
    /\ op = "sign_matrix"
    /\ res.status = "error"
    /\ Cardinality(Children(pars[1], RootOf(pars[1]))) = 2
    /\ \E v \in DOMAIN pars[1] : pars[1][v] # v /\ Cardinality(Children(pars[1], v)) \in {1, 3}

C4_WitnessUnrooted ==
    /\ op = "sign_matrix"
    /\ res.status = "error"
    /\ Cardinality(Children(pars[1], RootOf(pars[1]))) = 3
    /\ \A v \in DOMAIN pars[1] : pars[1][v] # v => Cardinality(Children(pars[1], v)) \in {0, 2}

\* The node below the edge with index e.
EdgeChild(par, e) == CHOOSE v \in DOMAIN par : par[v] # v /\ EdgeOf(par, v) = e

Adjacent(par, cut, u, v) ==
    \/ par[u] = v /\ u # v /\ u # cut
    \/ par[v] = u /\ u # v /\ v # cut

RECURSIVE Component(_, _, _)
\* The nodes connected to S once the edge above node cut is removed.
Component(par, cut, S) ==
    LET T == S \cup { v \in DOMAIN par : \E u \in S : Adjacent(par, cut, u, v) }
    IN  IF T = S THEN S ELSE Component(par, cut, T)

\* C6: subtree_size(tree, link) is the number of nodes of the component
\* that holds link.outer().node() once the link's edge is removed; the
\* link's own node is not counted; on ((B,(D,E)C)A,F,(H,I)G)R link 0 yields
\* 5 and link 6 yields 9.
C6_SubtreeSize ==
    op = "subtree_size" =>
        LET par == pars[1]
            lnk == args[1]
            cut == EdgeChild(par, heap.eindex[edge(lnk)])
            far == Component(par, cut, {heap.nindex[node(outer(lnk))]})
        IN  /\ res = Ok(Cardinality(far))
            /\ heap.nindex[node(lnk)] \notin far
            /\ (par = RefParent /\ heap.lindex[lnk] = 0) => res.value = 5
            /\ (par = RefParent /\ heap.lindex[lnk] = 6) => res.value = 9

\* C6 witness: the two calls on the reference tree, and a call on the
\* root-ward side of an inner edge elsewhere.
C6_Witness ==
    /\ op = "subtree_size"
    /\ pars[1] = RefParent
    /\ args[1] = 0
    /\ res = Ok(5)

C6_WitnessLeafLink ==
    /\ op = "subtree_size"
    /\ pars[1] = RefParent
    /\ args[1] = 6
    /\ res = Ok(9)

RECURSIVE SumDegrees(_, _)
\* degree( node_at(0) ) + ... + degree( node_at(i - 1) )
SumDegrees(t, i) == IF i = 0 THEN 0 ELSE SumDegrees(t, i - 1) + degree(node_at(t, i - 1))

RECURSIVE NextTimes(_, _)
\* The link reached from l by k steps of next().
NextTimes(l, k) == IF k = 0 THEN l ELSE next(NextTimes(l, k - 1))

\* C7: the degrees of all nodes sum to 2 x edge_count; degree(n) is the
\* number of links node_links(n) yields, the walk along next() from the
\* primary link is back at it after exactly degree(n) steps and not before,
\* and the single link of a leaf is its own next.
C7_DegreeSum ==
    op \in {"degree", "node_links"} =>
        LET n == args[1]
            t == trees[1]
            d == degree(n)
        IN  /\ op = "degree" => res = Ok(d)
            /\ op = "node_links" =>
                 /\ Len(res.value) = d
                 /\ \A k \in 1 .. d : res.value[k] = NextTimes(link(n), k - 1)
                 /\ \A k \in 1 .. d : node(res.value[k]) = n
            /\ SumDegrees(t, node_count(t)) = 2 * edge_count(t)
            /\ NextTimes(link(n), d) = link(n)
            /\ \A k \in 1 .. d - 1 : NextTimes(link(n), k) # link(n)
            /\ d = Cardinality({ l \in DOMAIN heap.lnode : heap.lnode[l] = n })
            /\ is_leaf_node(n) <=> d = 1

\* C7 witness: the degree of a node with three links and of a leaf.
C7_Witness ==
    /\ op = "degree"
    /\ res = Ok(3)

C7_WitnessLeaf ==
    /\ op = "node_links"
    /\ Len(res.value) = 1
    /\ next(res.value[1]) = res.value[1]

----------------------------------------------------------------------------
(* SampleSerializer                                                        *)

\* C8: loading the file that save wrote for a Sample yields a Sample with
\* the same number of Pqueries in the same order, the same number of
\* placements per Pquery, each placement with the same edge index,
\* likelihood, like_weight_ratio, proximal_length and pendant_length, and
\* the same number of names per Pquery.
C8_SaveLoadRoundTrip ==
    (op = "load" /\ faults = 0) =>
        /\ res.status = "ok"
        /\ Len(res.value.pqueries) = Len(sample.pqueries)
        /\ \A q \in DOMAIN sample.pqueries :
              LET s == sample.pqueries[q]
                  l == res.value.pqueries[q]
              IN  /\ Len(l.placements) = Len(s.placements)
                  /\ Len(l.names) = Len(s.names)
                  /\ \A p \in DOMAIN s.placements :
                        /\ l.placements[p].edge_index = s.placements[p].edge_index
                        /\ l.placements[p].likelihood = s.placements[p].likelihood
                        /\ l.placements[p].like_weight_ratio
                             = s.placements[p].like_weight_ratio
                        /\ l.placements[p].proximal_length
                             = s.placements[p].proximal_length
                        /\ l.placements[p].pendant_length
                             = s.placements[p].pendant_length

\* C8 witness: a Sample with two Pqueries, the first without names, the
\* second with two placements on different edges and two names, was saved
\* and loaded.
C8_Witness ==
    /\ op = "load"
    /\ faults = 0
    /\ res.status = "ok"
    /\ Len(res.value.pqueries) = 2
    /\ Len(sample.pqueries[1].names) = 0
    /\ Len(res.value.pqueries[2].placements) = 2
    /\ Len(res.value.pqueries[2].names) = 2
    /\ res.value.pqueries[2].placements[1].edge_index
         # res.value.pqueries[2].placements[2].edge_index
    /\ res.value.pqueries[2].placements[2].proximal_length > 65535

\* C9 as stated: load fails whenever any of the first 8 bytes differs from
\* the magic tag, whenever the version byte differs from version, and
\* whenever bytes remain after the declared content; the magic tag is
\* checked before the version, the version before the tree is parsed.
C9_LoadRejects ==
    op = "load" =>
        IF SubSeq(file, 1, 8) # magic
        THEN res = Throw("invalid_argument: Wrong file format")
        ELSE IF file[9] # version
        THEN res = Throw("invalid_argument: Wrong serialization version")
        ELSE IF Len(file) > Len(save(sample))
        THEN res = Throw("invalid_argument: File longer than expected")
        ELSE res.status = "ok"

----------------------------------------------------------------------------
(* Functions called across topologies                                      *)

\* C10 as stated: lowest_common_ancestor called with two nodes that do not
\* belong to one and the same topology fails with an error and returns no
\* node.
C10_CrossTopologyLcaFails ==
    (op = "lowest_common_ancestor" /\ OwnerOfNode(args[1]) # OwnerOfNode(args[2])) =>
        res.status = "error"

\* The links and the nodes of the first topology.
LinksOf(t) == { t.links_[i] : i \in DOMAIN t.links_ }
NodesOf(t) == { t.nodes_[i] : i \in DOMAIN t.nodes_ }

\* C11: subtree_size, subtree_sizes, subtree_max_path_height and
\* subtree_max_path_heights fail with an error, and return nothing, whenever
\* the link or node they are given does not belong to the tree they are given.
C11_SubtreeFunctionsReject ==
    /\ (op \in {"subtree_size", "subtree_max_path_height"}
          /\ args[1] \notin LinksOf(trees[1])) => res = Throw("runtime_error")
    /\ (op \in {"subtree_sizes", "subtree_max_path_heights"}
          /\ args[1] \notin NodesOf(trees[1])) => res = Throw("runtime_error")

\* C11 witness: subtree_sizes was called with a node of the second topology
\* whose index is an index of the first topology, too, and has failed.
C11_Witness ==
    /\ op = "subtree_sizes"
    /\ Len(trees) = 2
    /\ args[1] \in NodesOf(trees[2])
    /\ heap.nindex[args[1]] < node_count(trees[1])
    /\ res.status = "error"

----------------------------------------------------------------------------
(* Edge PCA                                                                *)

\* The edges on the distal side of the edge e: those below the node that e
\* leads to.
DistalEdges(par, e) ==
    { f \in 0 .. Cardinality(DOMAIN par) - 2 :
        f # e /\ AncOrSelf(par, EdgeChild(par, e), EdgeChild(par, f)) }

ProximalEdges(par, e) ==
    { f \in 0 .. Cardinality(DOMAIN par) - 2 : f # e } \ DistalEdges(par, e)

RECURSIVE SumOver(_, _)
SumOver(f, S) ==
    IF S = {} THEN 0
    ELSE LET x == CHOOSE x \in S : TRUE IN f[x] + SumOver(f, S \ {x})

\* The difference of the masses of the two sides of the edge e of smp.
MassDifference(smp, e) ==
    LET masses == placement_mass_per_edges_with_multiplicities(smp)
    IN  SumOver(masses, DistalEdges(smp.tree, e)) - SumOver(masses, ProximalEdges(smp.tree, e))

\* The mass of smp that is not on the edge e.
MassOffEdge(smp, e) ==
    LET masses == placement_mass_per_edges_with_multiplicities(smp)
    IN  SumOver(masses, DOMAIN masses \ {e})

\* The edges of the tree par that lead to a leaf.
LeafEdges(par) ==
    { e \in 0 .. Cardinality(DOMAIN par) - 2 : Children(par, EdgeChild(par, e)) = {} }

\* C12: for every Sample epca_imbalance_vector returns a vector over the edge
\* indices; without normalization the entry of edge e is the mass on the
\* distal side of e minus the mass on its proximal side, with normalization
\* that difference divided by the mass that is not on e.
C12_ImbalanceVector ==
    op = "epca_imbalance_vector" =>
        LET smp == sample_set[args[1]]
            E == 0 .. Cardinality(DOMAIN smp.tree) - 2
        IN  /\ res.status = "ok"
            /\ DOMAIN res.value = E
            /\ \A e \in E :
                 IF args[2]
                 THEN /\ MassOffEdge(smp, e) # 0
                      /\ res.value[e] = Num(MassDifference(smp, e), MassOffEdge(smp, e))
                 ELSE res.value[e] = Num(MassDifference(smp, e), 1)

\* C13: for every Sample, every entry of the normalized imbalance vector that
\* belongs to an edge leading to a leaf is -1.
C13_LeafEntriesMinusOne ==
    (op = "epca_imbalance_vector" /\ args[2]) =>
        /\ res.status = "ok"
        /\ \A e \in LeafEdges(sample_set[args[1]].tree) : res.value[e] = Num(0 - 1, 1)

\* C14: with include_leaves the matrix of epca_imbalance_matrix has the entry
\* -1 in every row of the column of an edge leading to a leaf, with and
\* without normalization.
C14_LeafColumnsMinusOne ==
    (op = "epca_imbalance_matrix" /\ args[1] /\ Len(sample_set) > 0
        /\ all_identical_trees(sample_set, trees)) =>
        /\ res.status = "ok"
        /\ \A s \in 0 .. Len(sample_set) - 1 :
             \A e \in LeafEdges(sample_set[1].tree) : res.value[<<s, e>>] = Num(0 - 1, 1)

\* The trees of the samples s and r are identical: the same node names at
\* the same node indices, the same edge_nums and the same indices of the
\* primary and the secondary node at the same edge indices.
SameTree(s, r) ==
    /\ node_count(trees[s]) = node_count(trees[r])
    /\ edge_count(trees[s]) = edge_count(trees[r])
    /\ sample_set[s].node_names = sample_set[r].node_names
    /\ sample_set[s].edge_nums = sample_set[r].edge_nums
    /\ \A e \in 0 .. edge_count(trees[s]) - 1 :
         /\ heap.nindex[primary_node(edge_at(trees[s], e))]
              = heap.nindex[primary_node(edge_at(trees[r], e))]
         /\ heap.nindex[secondary_node(edge_at(trees[s], e))]
              = heap.nindex[secondary_node(edge_at(trees[r], e))]

\* C15: epca_imbalance_matrix fails with a runtime_error and returns no
\* matrix when the SampleSet is not empty and two of its trees differ in a
\* node name, an edge_num, the end nodes of an edge, or their size; no
\* imbalance vector has been computed then, so no assertion of that
\* computation can have stopped the program first.
C15_MatrixRejectsDifferentTrees ==
    (op = "epca_imbalance_matrix" /\ Len(sample_set) > 0
        /\ \E s \in DOMAIN sample_set : ~SameTree(s, 1))
    => res = Throw("runtime_error")

\* Two samples whose trees differ in the name of one node only, the first
\* sample without any mass.
C15_Witness ==
    /\ op = "epca_imbalance_matrix"
    /\ Len(sample_set) = 2
    /\ sample_set[1].tree = sample_set[2].tree
    /\ sample_set[1].edge_nums = sample_set[2].edge_nums
    /\ sample_set[1].node_names # sample_set[2].node_names
    /\ ~SameTree(2, 1)
    /\ sample_set[1].pqueries = <<>>
    /\ args[2]
    /\ ~args[3]
    /\ res.status = "error"

\* C16: epca_splitify_transform with kappa = 1 leaves every entry of the
\* matrix as it was; with kappa = 0 every entry x becomes the sign of x: 1 for
\* a positive, -1 for a negative entry, and 0 stays 0.
C16_SplitifyKappaOneAndZero ==
    (op = "epca_splitify_transform" /\ args[1] \in {0, 1}) =>
        /\ res.status = "ok"
        /\ DOMAIN matrix = DOMAIN args[2]
        /\ \A rc \in DOMAIN matrix :
             IF args[1] = 1 THEN matrix[rc] = args[2][rc]
             ELSE matrix[rc] = IF Less(Num(0, 1), args[2][rc]) THEN Num(1, 1)
                               ELSE IF Less(args[2][rc], Num(0, 1)) THEN Num(0 - 1, 1)
                               ELSE Num(0, 1)

\* kappa = 0 on a matrix with a fraction and a zero.
C16_Witness ==
    /\ op = "epca_splitify_transform"
    /\ args[1] = 0
    /\ args[2] = (<<0, 0>> :> Num(0 - 1, 2)) @@ (<<0, 1>> :> Num(0, 1))
    /\ matrix = (<<0, 0>> :> Num(0 - 1, 1)) @@ (<<0, 1>> :> Num(0, 1))

\* kappa = 1 on a matrix with entries that are not signs.
C16_WitnessKappaOne ==
    /\ op = "epca_splitify_transform"
    /\ args[1] = 1
    /\ args[2] = (<<0, 0>> :> Num(3, 1)) @@ (<<0, 1>> :> Num(0 - 1, 2))
    /\ matrix = args[2]

\* C17: epca_splitify_transform with kappa < 0 fails with a runtime_error
\* about the argument and leaves every entry of the matrix as it was.
C17_SplitifyRejectsNegativeKappa ==
    (op = "epca_splitify_transform" /\ args[1] < 0) =>
        /\ res = Throw("runtime_error")
        /\ matrix = args[2]

C17_Witness ==
    /\ op = "epca_splitify_transform"
    /\ args[1] = 0 - 1
    /\ args[2] = (<<0, 0>> :> Num(0 - 2, 1)) @@ (<<0, 1>> :> Num(1, 3))
    /\ res.status = "error"
    /\ matrix = args[2]

\* The normalized imbalance of the edge e in the samples s1 and s2 differs by
\* more than epsilon.
ImbalanceVaries(e, epsilon) ==
    \E s1, s2 \in DOMAIN sample_set :
        LET n1 == MassDifference(sample_set[s1], e)
            d1 == MassOffEdge(sample_set[s1], e)
            n2 == MassDifference(sample_set[s2], e)
            d2 == MassOffEdge(sample_set[s2], e)
        IN  n2 * d1 - n1 * d2 > epsilon * d1 * d2

\* The edges that do not lead to a leaf.
InnerEdges(par) == (0 .. Cardinality(DOMAIN par) - 2) \ LeafEdges(par)

\* C18: for every SampleSet that is not empty and whose trees are identical,
\* epca (with a kappa that is not negative) returns edge_indices that list, in
\* increasing order, exactly the inner edges whose column of the imbalance
\* matrix is not constant, and an eigenvector matrix with one row per entry
\* of edge_indices.
C18_EpcaEdgeIndices ==
    (op = "epca" /\ args[1] >= 0 /\ Len(sample_set) > 0
        /\ all_identical_trees(sample_set, trees)) =>
        /\ res.status = "ok"
        /\ LET ei == res.value.edge_indices
               kept == { e \in InnerEdges(sample_set[1].tree) : ImbalanceVaries(e, args[2]) }
           IN  /\ DOMAIN ei = 0 .. Cardinality(kept) - 1
               /\ \A k \in DOMAIN ei :
                    /\ ei[k] \in kept
                    /\ Cardinality({ e \in kept : e < ei[k] }) = k
               /\ res.value.pca.eigenvectors_rows = Cardinality(kept)

----------------------------------------------------------------------------
(* Merging duplicate Pqueries                                              *)

\* The numbers of Pqueries, of names and of placements of a Sample.
NameCount(smp) == SumSeq([q \in DOMAIN smp.pqueries |-> Len(smp.pqueries[q].names)])
PlacementCount(smp) == SumSeq([q \in DOMAIN smp.pqueries |-> Len(smp.pqueries[q].placements)])

\* C19: merge_duplicates applied to its own result changes nothing, and one
\* application never increases the number of Pqueries, of names or of
\* placements.
C19_MergeDuplicatesIdempotent ==
    op = "merge_duplicates" =>
        /\ Len(sample.pqueries) <= Len(args[Len(args)].pqueries)
        /\ NameCount(sample) <= NameCount(args[Len(args)])
        /\ PlacementCount(sample) <= PlacementCount(args[Len(args)])
        /\ Len(args) = 2 => sample = args[2]

\* Two applications to a Sample whose third Pquery links the first two, which
\* share no name: the first application leaves one Pquery.
C19_Witness ==
    /\ op = "merge_duplicates"
    /\ Len(args) = 2
    /\ Len(args[1].pqueries) = 3
    /\ NameSet(args[1].pqueries[1]) \cap NameSet(args[1].pqueries[2]) = {}
    /\ Len(args[2].pqueries) = 1
    /\ PlacementCount(args[2]) < PlacementCount(args[1])
    /\ NameCount(args[2]) < NameCount(args[1])
    /\ sample = args[2]

----------------------------------------------------------------------------
(* Loading several files                                                   *)

\* The Sample and the name that belong to a path of the disk.
SampleOfPath(path) ==
    IF path = <<97, 46, 98>> THEN SampleA
    ELSE IF path = <<99, 46, 98>> THEN SampleA
    ELSE SampleB

NameOfPath(path) ==
    IF path = <<97, 46, 98>> THEN <<97>>
    ELSE IF path = <<100, 47, 98, 46, 98>> THEN <<98>>
    ELSE IF path = <<100, 47, 97, 46, 99, 46, 98>> THEN <<97, 46, 99>>
    ELSE <<99>>

\* C20: load( file_names, sample_set ) appends one Sample per file name, in
\* the order of file_names and named after the file, to the SampleSet as it
\* was given, whatever the order in which parallel loads finish; the program
\* built with OpenMP and the one built without leave the same SampleSet and
\* end the call in the same way.
C20_LoadKeepsOrder ==
    op \in {"load_files_serial", "load_files_openmp"} =>
        /\ res.status = "ok" =>
             sample_set = args[1] \o [i \in DOMAIN file_names |->
                 [ name |-> NameOfPath(file_names[i]),
                   sample |-> SampleOfPath(file_names[i]) ]]
        /\ res = load_files_serial(file_names, 1, args[1])[1]
        /\ sample_set = load_files_serial(file_names, 1, args[1])[2]
        /\ \A sched \in FinishOrders(Len(file_names)) :
             /\ res = load_files_openmp(file_names, sched, args[1])[1]
             /\ sample_set = load_files_openmp(file_names, sched, args[1])[2]

----------------------------------------------------------------------------
(* Subtrees of a tree viewed as rooted at a start node                     *)

\* The nodes joined to the node u by an edge.
Neighbours(par, u) == { w \in DOMAIN par : w # u /\ (par[w] = u \/ par[u] = w) }

RECURSIVE ReachAvoiding(_, _, _)
\* The nodes that paths from the nodes S reach without passing the node u.
ReachAvoiding(par, u, S) ==
    LET T == (S \cup UNION { Neighbours(par, w) : w \in S }) \ {u}
    IN  IF T = S THEN S ELSE ReachAvoiding(par, u, T)

\* The proper descendants of the node u in the tree rooted at the node v.
DescendantsFrom(par, v, u) ==
    IF u = v THEN DOMAIN par \ {v}
    ELSE DOMAIN par \ (ReachAvoiding(par, u, {v}) \cup {u})

RECURSIVE DistanceWithin(_, _, _, _)
\* The number of edges between a node of S and the node w, S being the nodes
\* within d edges of the start.
DistanceWithin(par, S, w, d) ==
    IF w \in S THEN d
    ELSE DistanceWithin(par, S \cup UNION { Neighbours(par, x) : x \in S }, w, d + 1)

\* The most edges on a path from u down to a node of its subtree, in the tree
\* rooted at v.
HeightFrom(par, v, u) ==
    LET D == { DistanceWithin(par, {u}, w, 0) : w \in DescendantsFrom(par, v, u) }
    IN  IF D = {} THEN 0 ELSE CHOOSE d \in D : \A e \in D : e <= d

\* C22: subtree_sizes(tree, v) returns, by node index, the number of proper
\* descendants of each node in the tree rooted at v: node_count - 1 for v and
\* 0 for every other leaf; the traversal ends with only the link of v on the
\* stack, in builds with and without assertions.
C22_SubtreeSizes ==
    (op = "subtree_sizes" /\ args[1] \in NodesOf(trees[1])) =>
        LET par == pars[1]
            v == heap.nindex[args[1]]
            fin == subtree_sizes_loop(args[1], eulertour(args[1]), 1, <<link(args[1])>>,
                                      [i \in DOMAIN par |-> 0])
        IN  /\ res.status = "ok"
            /\ DOMAIN res.value = DOMAIN par
            /\ \A u \in DOMAIN par :
                 res.value[u] = Cardinality(DescendantsFrom(par, v, u))
            /\ res.value[v] = Cardinality(DOMAIN par) - 1
            /\ \A u \in DOMAIN par \ {v} :
                 Cardinality(Neighbours(par, u)) = 1 => res.value[u] = 0
            /\ fin[1] = <<link(args[1])>>

\* C22 witness: the sizes from an inner node that is not the root, on the
\* reference tree ((B,(D,E)C)A,F,(H,I)G)R.
C22_Witness ==
    /\ op = "subtree_sizes"
    /\ pars[1] = RefParent
    /\ args[1] \in NodesOf(trees[1])
    /\ ~is_root(args[1])
    /\ is_inner_node(args[1])
    /\ res.status = "ok"
    /\ res.value[heap.nindex[root_node(trees[1])]] > 0
    /\ res.value[heap.nindex[args[1]]] = 9

\* C23: subtree_max_path_heights(tree, v) returns, by node index, the most
\* edges on a path from each node down to a leaf of its subtree in the tree
\* rooted at v, which is 0 for the leaves other than v;
\* subtree_max_path_height(tree, link) returns that number for the subtree
\* behind the link, and for every link that leads away from the root it is
\* the entry of subtree_max_path_heights(tree, root) for the node behind it.
C23_SubtreeMaxPathHeights ==
    /\ (op = "subtree_max_path_heights" /\ args[1] \in NodesOf(trees[1])) =>
          LET par == pars[1]
              v == heap.nindex[args[1]]
          IN  /\ res.status = "ok"
              /\ DOMAIN res.value = DOMAIN par
              /\ \A u \in DOMAIN par : res.value[u] = HeightFrom(par, v, u)
              /\ \A u \in DOMAIN par \ {v} :
                   Cardinality(Neighbours(par, u)) = 1 => res.value[u] = 0
    /\ (op = "subtree_max_path_height" /\ args[1] \in LinksOf(trees[1])) =>
          LET par == pars[1]
              behind == heap.nindex[node(outer(args[1]))]
              before == heap.nindex[node(args[1])]
          IN  /\ res = Ok(HeightFrom(par, before, behind))
              /\ (link(node(outer(args[1]))) = outer(args[1])
                    /\ ~is_root(node(outer(args[1])))) =>
                   res.value =
                     subtree_max_path_heights(trees[1], root_node(trees[1])).value[behind]

\* C23 witness: the heights from an inner node that is not the root, on the
\* reference tree, where the root then lies in a subtree.
C23_Witness ==
    /\ op = "subtree_max_path_heights"
    /\ pars[1] = RefParent
    /\ args[1] \in NodesOf(trees[1])
    /\ ~is_root(args[1])
    /\ is_inner_node(args[1])
    /\ res.status = "ok"
    /\ res.value[heap.nindex[root_node(trees[1])]] > 0

\* The height behind a link that leads away from the root to an inner node.
C23_WitnessLink ==
    /\ op = "subtree_max_path_height"
    /\ pars[1] = RefParent
    /\ args[1] \in LinksOf(trees[1])
    /\ link(node(outer(args[1]))) = outer(args[1])
    /\ ~is_root(node(outer(args[1])))
    /\ res = Ok(2)

----------------------------------------------------------------------------

\* C25 as stated: every name of a Sample loaded from a file that save wrote
\* carries the multiplicity that was saved for it.  Violated: load assigns
\* the multiplicity it reads to a copy of the name it added
\* (auto name = pqry.add_name( ... )), so every loaded name keeps the
\* multiplicity 1.0 that add_name gives it.
C25_LoadKeepsMultiplicity ==
    (op = "load" /\ faults = 0 /\ res.status = "ok") =>
        \A q \in DOMAIN sample.pqueries :
            /\ q \in DOMAIN res.value.pqueries
            /\ \A j \in DOMAIN sample.pqueries[q].names :
                  /\ j \in DOMAIN res.value.pqueries[q].names
                  /\ res.value.pqueries[q].names[j].multiplicity
                       = sample.pqueries[q].names[j].multiplicity
----------------------------------------------------------------------------
(* Counts and indices of leaf and inner edges                             *)

\* leaf_edge_count( tree )
leaf_edge_count(t) ==
    Cardinality({ i \in 0 .. edge_count(t) - 1 :
        \/ is_leaf_node(primary_node(edge_at(t, i)))
        \/ is_leaf_node(secondary_node(edge_at(t, i))) })

\* leaf_edge_indices( tree )
leaf_edge_indices(t) ==
    LET S == { i \in 0 .. edge_count(t) - 1 : is_leaf_node(secondary_node(edge_at(t, i))) }
    IN  [k \in 0 .. Cardinality(S) - 1 |->
            CHOOSE i \in S : Cardinality({ j \in S : j < i }) = k]

CallLeafEdgeCount ==
    /\ op = "init"
    /\ op' = "leaf_edge_count"
    /\ args' = <<>>
    /\ res' = Ok(leaf_edge_count(trees[1]))
    /\ UNCHANGED <<heap, trees, pars, sample, file, faults, sample_set, matrix, file_names, log_vars>>

CallInnerEdgeCount ==
    /\ op = "init"
    /\ op' = "inner_edge_count"
    /\ args' = <<>>
    /\ res' = Ok(inner_edge_count(trees[1]))
    /\ UNCHANGED <<heap, trees, pars, sample, file, faults, sample_set, matrix, file_names, log_vars>>

NextEdgeCounts ==
    \/ CallLeafEdgeCount
    \/ CallInnerEdgeCount

SpecEdgeCounts == Init /\ [][NextEdgeCounts]_vars

\* C26 as stated: on every tree inner_edge_count is the number of indices
\* inner_edge_indices returns and leaf_edge_count the number leaf_edge_indices
\* returns.  Violated on every tree whose root is a leaf: the edge at the
\* root has a leaf as primary node and an inner node as secondary node, so
\* the counts take it for a leaf edge and the index lists for an inner edge.
C26_EdgeCountsMatchIndices ==
    /\ op = "inner_edge_count" =>
          res.value = Cardinality(DOMAIN inner_edge_indices(trees[1]))
    /\ op = "leaf_edge_count" =>
          res.value = Cardinality(DOMAIN leaf_edge_indices(trees[1]))
----------------------------------------------------------------------------

\* C27 as stated: whenever epca_imbalance_vector is called with normalize,
\* the normalizer mass_sum - masses[ e ] is greater than 0 for every edge e,
\* so the call returns and no entry is the outcome of a division by zero.
\* Violated by a Sample without placements and by a Sample whose whole mass
\* lies on one edge.
C27_NormalizerPositive ==
    (op = "epca_imbalance_vector" /\ args[2]) =>
        LET smp      == sample_set[args[1]]
            t        == trees[args[1]]
            masses   == placement_mass_per_edges_with_multiplicities(smp)
            mass_sum == SumSeq([k \in 1 .. edge_count(t) |-> masses[k - 1]])
        IN  /\ \A e \in 0 .. edge_count(t) - 1 : mass_sum - masses[e] > 0
            /\ res.status = "ok"
            /\ \A e \in DOMAIN res.value : ~res.value[e].nan /\ res.value[e].d # 0

\* SampleSets of one Sample, for the calls of epca_imbalance_vector alone.
InitEpcaVector == InitEpcaOf(SampleSetsUpTo(MaxEpcaPqueries, 1))

NextEpcaVector ==
    \E s \in DOMAIN sample_set : \E normalize \in BOOLEAN :
        CallEpcaImbalanceVector(s, normalize)

SpecEpcaVector == InitEpcaVector /\ [][NextEpcaVector]_vars

----------------------------------------------------------------------------
(* Matrices that are built by parallel loops                               *)

RECURSIVE node_root_direction_walk(_, _, _)
\* while( current_link != stop ) { mat( row_index, current_link->node()
\* .index() ) = value; current_link = &( current_link->next().outer() ); }:
\* the column indices that are written.
node_root_direction_walk(stop, current_link, cols) ==
    IF current_link = stop THEN cols
    ELSE node_root_direction_walk(stop, outer(next(current_link)),
             cols \cup {heap.nindex[node(current_link)]})

\* A walk that stores its value in the column of every node it meets, in
\* all rows.
node_root_direction_cells_all_rows(call) ==
    { <<r, j>> : r \in node_root_direction_walk(call[2], outer(call[2]), {}),
                 j \in node_root_direction_walk(call[2], outer(call[2]), {}) }

\* The cells one walk <<row_index, stop link, value>> writes.
node_root_direction_cells(call) ==
    { <<call[1], j>> : j \in node_root_direction_walk(call[2], outer(call[2]), {}) }

RECURSIVE node_root_direction_sub_links(_, _, _)
\* while( sub_link != primary_link ) { ...; sub_link = &( sub_link->next() ); }
node_root_direction_sub_links(row_index, primary, sub_link) ==
    IF sub_link = primary THEN <<>>
    ELSE <<<<row_index, sub_link, 0 - 1>>>>
           \o node_root_direction_sub_links(row_index, primary, next(sub_link))

\* The walks of the iteration i: the root side first, then the other sides.
node_root_direction_row(t, i) ==
    LET row_node  == node_at(t, i)
        row_index == heap.nindex[row_node]
        primary   == link(row_node)
        value     == IF is_root(row_node) THEN 0 - 1 ELSE 1
    IN  <<<<row_index, primary, value>>>>
          \o node_root_direction_sub_links(row_index, primary, next(primary))

RECURSIVE node_root_direction_iterations(_, _, _)
\* The walks of all iterations, the iterations in the order sched.
node_root_direction_iterations(t, sched, k) ==
    IF k > Len(sched) THEN <<>>
    ELSE node_root_direction_row(t, sched[k])
           \o node_root_direction_iterations(t, sched, k + 1)

\* node_root_direction_matrix( tree ): the rows are the iterations of an omp
\* parallel for.
node_root_direction_matrix(t, sched, ndebug) ==
    LET mat == ApplyWrites(Matrix(node_count(t), node_count(t), 0),
                           node_root_direction_iterations(t, sched, 1),
                           node_root_direction_cells, LAMBDA call : call[3])
    IN  IF ~ndebug /\ \E i \in 0 .. node_count(t) - 1 : mat[<<i, i>>] # 0
        THEN Abort
        ELSE Ok(mat)

CallNodeRootDirectionMatrix(sched) ==
    /\ op = "init"
    /\ op' = "node_root_direction_matrix"
    /\ args' = <<sched>>
    /\ \E ndebug \in BOOLEAN : res' = node_root_direction_matrix(trees[1], sched, ndebug)
    /\ UNCHANGED <<heap, trees, pars, sample, file, faults, sample_set, matrix, file_names, log_vars>>

\* SampleSets of at least one Sample; the functions on trees get the tree of
\* the first Sample.
InitParallel == InitEpcaTrees /\ Len(sample_set) > 0

NextParallel ==
    \/ \E openmp \in BOOLEAN : CallLowestCommonAncestors(openmp)
    \/ \E compressed \in BOOLEAN : CallSignMatrix(compressed)
    \/ \E sched \in Schedules(node_count(trees[1])) : CallNodeRootDirectionMatrix(sched)
    \/ \E include_leaves, normalize \in BOOLEAN :
          CallEpcaImbalanceMatrix(include_leaves, normalize)

SpecParallel == InitParallel /\ [][NextParallel]_vars

\* The cells the iteration i of the loop of sign_matrix writes.
SignMatrixRowCells(t, i) ==
    sign_matrix_cells(sign_matrix_fill(t, i, FALSE))
      \cup sign_matrix_cells(sign_matrix_fill(t, i, TRUE))

\* The cells the iteration i of the loop of node_root_direction_matrix writes.
NodeRootDirectionRowCells(t, i) ==
    LET calls == node_root_direction_row(t, i)
    IN  UNION { node_root_direction_cells(calls[k]) : k \in DOMAIN calls }

----------------------------------------------------------------------------
(* SvgBox                                                                  *)

MaxCoord == 2

SvgPoint(x, y) == [x |-> x, y |-> y]

SvgPoints == { SvgPoint(x, y) : x \in 0 .. MaxCoord, y \in 0 .. MaxCoord }

\* SvgBox( SvgPoint top_left, SvgPoint bottom_right ): the member
\* initializers copy the parameters into the members of the same names; in
\* the body the names top_left and bottom_right are the parameters, so the
\* two swaps change the parameters and leave the members as they are.
SvgBox(top_left, bottom_right) ==
    LET this   == [top_left |-> top_left, bottom_right |-> bottom_right]
        par_x  == IF bottom_right.x < top_left.x
                  THEN [top_left     |-> [top_left EXCEPT !.x = bottom_right.x],
                        bottom_right |-> [bottom_right EXCEPT !.x = top_left.x]]
                  ELSE [top_left |-> top_left, bottom_right |-> bottom_right]
        par_xy == IF par_x.bottom_right.y < par_x.top_left.y
                  THEN [top_left     |-> [par_x.top_left EXCEPT !.y = par_x.bottom_right.y],
                        bottom_right |-> [par_x.bottom_right EXCEPT !.y = par_x.top_left.y]]
                  ELSE par_x
    IN  [this |-> this, parameters |-> par_xy].this

\* SvgBox( SvgPoint top_left_v, double width, double height ): here the names
\* top_left and bottom_right are the members.
SvgBox_size(top_left_v, w, h) ==
    LET init == [top_left     |-> top_left_v,
                 bottom_right |-> SvgPoint(top_left_v.x + w, top_left_v.y + h)]
        sw_x == IF w < 0
                THEN [top_left     |-> [init.top_left EXCEPT !.x = init.bottom_right.x],
                      bottom_right |-> [init.bottom_right EXCEPT !.x = init.top_left.x]]
                ELSE init
    IN  IF h < 0
        THEN [top_left     |-> [sw_x.top_left EXCEPT !.y = sw_x.bottom_right.y],
              bottom_right |-> [sw_x.bottom_right EXCEPT !.y = sw_x.top_left.y]]
        ELSE sw_x

\* SvgBox::width(), SvgBox::height()
width(box)  == box.bottom_right.x - box.top_left.x
height(box) == box.bottom_right.y - box.top_left.y

InitSvg ==
    /\ op = "init"
    /\ args = <<>>
    /\ res = <<>>
    /\ heap = MakeHeap(<<>>, 0, 0, 0)
    /\ trees = <<>>
    /\ pars = <<>>
    /\ sample = <<>>
    /\ file_names = <<>>
    /\ file = <<>>
    /\ faults = 0
    /\ NoLogging
    /\ sample_set = <<>>
    /\ matrix = <<>>

ConstructSvgBox(top_left, bottom_right) ==
    /\ op = "init"
    /\ op' = "SvgBox"
    /\ args' = <<top_left, bottom_right>>
    /\ res' = SvgBox(top_left, bottom_right)
    /\ UNCHANGED <<heap, trees, pars, sample, file, faults, sample_set, matrix, file_names, log_vars>>

ConstructSvgBoxSize(top_left_v, w, h) ==
    /\ op = "init"
    /\ op' = "SvgBox_size"
    /\ args' = <<top_left_v, w, h>>
    /\ res' = SvgBox_size(top_left_v, w, h)
    /\ UNCHANGED <<heap, trees, pars, sample, file, faults, sample_set, matrix, file_names, log_vars>>

NextSvg ==
    \/ \E top_left, bottom_right \in SvgPoints : ConstructSvgBox(top_left, bottom_right)
    \/ \E top_left_v \in SvgPoints : \E w, h \in (0 - MaxCoord) .. MaxCoord :
          ConstructSvgBoxSize(top_left_v, w, h)

SpecSvg == InitSvg /\ [][NextSvg]_vars

\* C30 as stated: every SvgBox made from two corner points has its top_left
\* not right of and not below its bottom_right, so that width() and height()
\* are not negative, in whatever order the points are given.  Violated when
\* the first point is right of or below the second.
C30_SvgBoxCornersOrdered ==
    op = "SvgBox" =>
        /\ res.top_left.x <= res.bottom_right.x
        /\ res.top_left.y <= res.bottom_right.y
        /\ width(res) >= 0
        /\ height(res) >= 0
----------------------------------------------------------------------------
(* Logging: the destructor of a log line, in a build with threads          *)

MaxThreads == 2
MaxMessages == 2

Threads == 1 .. MaxThreads

\* A thread is at one place of ~Logging() ("idle": outside of it); reg is
\* the value of count_ it has loaded, logged the number of its messages.
InitLogging ==
    /\ count_ = 0
    /\ log_mutex = 0
    /\ ostreams_ = <<>>
    /\ threads = [t \in Threads |-> [pc |-> "idle", reg |-> 0, logged |-> 0]]
    /\ op = "init"
    /\ args = <<>>
    /\ res = <<>>
    /\ heap = MakeHeap(<<>>, 0, 0, 0)
    /\ trees = <<>>
    /\ pars = <<>>
    /\ sample = <<>>
    /\ file_names = <<>>
    /\ file = <<>>
    /\ faults = 0
    /\ sample_set = <<>>
    /\ matrix = <<>>

\* The thread t ends a log line: the message is built in local buffers.
BuildMessage(t) ==
    /\ threads[t].pc = "idle"
    /\ threads[t].logged < MaxMessages
    /\ threads' = [threads EXCEPT ![t].pc = "lock"]
    /\ UNCHANGED <<heap, trees, pars, op, args, res, sample, file, faults, sample_set,
                   matrix, file_names, count_, log_mutex, ostreams_>>

\* log_mutex.lock();
LockLogMutex(t) ==
    /\ threads[t].pc = "lock"
    /\ log_mutex = 0
    /\ log_mutex' = t
    /\ threads' = [threads EXCEPT ![t].pc = "write"]
    /\ UNCHANGED <<heap, trees, pars, op, args, res, sample, file, faults, sample_set,
                   matrix, file_names, count_, ostreams_>>

\* (*out) << msg << std::endl << std::flush; for every stream
WriteMessage(t) ==
    /\ threads[t].pc = "write"
    /\ ostreams_' = Append(ostreams_, <<t, threads[t].logged + 1>>)
    /\ threads' = [threads EXCEPT ![t].pc = "unlock"]
    /\ UNCHANGED <<heap, trees, pars, op, args, res, sample, file, faults, sample_set,
                   matrix, file_names, count_, log_mutex>>

\* log_mutex.unlock();
UnlockLogMutex(t) ==
    /\ threads[t].pc = "unlock"
    /\ log_mutex' = 0
    /\ threads' = [threads EXCEPT ![t].pc = "load"]
    /\ UNCHANGED <<heap, trees, pars, op, args, res, sample, file, faults, sample_set,
                   matrix, file_names, count_, ostreams_>>

\* count_++, after the mutex is released: the value of the static long is
\* loaded ...
LoadCount(t) ==
    /\ threads[t].pc = "load"
    /\ threads' = [threads EXCEPT ![t].pc = "store", ![t].reg = count_]
    /\ UNCHANGED <<heap, trees, pars, op, args, res, sample, file, faults, sample_set,
                   matrix, file_names, count_, log_mutex, ostreams_>>

\* ... and the value plus one is stored; the destructor returns.
StoreCount(t) ==
    /\ threads[t].pc = "store"
    /\ count_' = threads[t].reg + 1
    /\ threads' = [threads EXCEPT ![t].pc = "idle", ![t].logged = @ + 1]
    /\ UNCHANGED <<heap, trees, pars, op, args, res, sample, file, faults, sample_set,
                   matrix, file_names, log_mutex, ostreams_>>

NextLogging ==
    \/ \E t \in Threads : BuildMessage(t)
    \/ \E t \in Threads : LockLogMutex(t)
    \/ \E t \in Threads : WriteMessage(t)
    \/ \E t \in Threads : UnlockLogMutex(t)
    \/ \E t \in Threads : LoadCount(t)
    \/ \E t \in Threads : StoreCount(t)

SpecLogging == InitLogging /\ [][NextLogging]_vars

\* The number of messages the threads have logged.
MessagesLogged == SumSeq([t \in Threads |-> threads[t].logged])

\* C29 as stated: whenever no thread is inside the destructor, count_ is its
\* initial value 0 plus the number of messages that were logged, and every
\* one of these messages is in the streams once.  Violated: two threads
\* load the same value of count_ and both store that value plus one.
C29_CountIsNumberOfMessages ==
    (\A t \in Threads : threads[t].pc = "idle") =>
        /\ count_ = MessagesLogged
        /\ Len(ostreams_) = MessagesLogged
        /\ \A i, j \in DOMAIN ostreams_ : i # j => ostreams_[i] # ostreams_[j]
----------------------------------------------------------------------------
(* FastaReader: the two methods of parsing a sequence                      *)

MaxInputLen == 7

\* The characters of the inputs: the start of a label, the start of a
\* comment, the end of a line and a site.
FastaChars == { ">", ";", "\n", "A" }

\* The contents of an input stream of at most max_len characters, which ends
\* every line with '\n'.
FastaInputs(max_len) ==
    { <<>> } \cup UNION { { Append(body, "\n") : body \in [1 .. k -> FastaChars] } :
                          k \in 0 .. max_len - 1 }

isprint(c) == c \in { ">", ";", "A" }

\* lookup_[ c ], when the valid characters are set to "A"
lookup_(c) == c = "A"

RECURSIVE read_while_isprint(_, _)
\* utils::read_while( it, isprint ), utils::skip_while( it, isprint ): the
\* position of the stream after it.
read_while_isprint(in, pos) ==
    IF pos <= Len(in) /\ isprint(in[pos]) THEN read_while_isprint(in, pos + 1) ELSE pos

RECURSIVE skip_until_newline(_, _)
\* utils::skip_until( it, '\n' )
skip_until_newline(in, pos) ==
    IF pos <= Len(in) /\ in[pos] # "\n" THEN skip_until_newline(in, pos + 1) ELSE pos

RECURSIVE skip_comments(_, _)
\* while( it && *it == ';' ) { utils::skip_until( it, '\n' ); ++it; }
skip_comments(in, pos) ==
    IF pos <= Len(in) /\ in[pos] = ";"
    THEN skip_comments(in, skip_until_newline(in, pos) + 1)
    ELSE pos

RECURSIVE get_lines(_, _, _)
\* while( it && *it != '>' ) { it.get_line( sites ); }: <<position, sites>>
get_lines(in, pos, sites) ==
    IF pos <= Len(in) /\ in[pos] # ">"
    THEN LET e == skip_until_newline(in, pos)
         IN  get_lines(in, e + 1, sites \o SubSeq(in, pos, e - 1))
    ELSE <<pos, sites>>

\* FastaReader::parse_sequence( input_stream, sequence ), the stream being
\* at the position pos of in: whether a sequence was found, the sequence,
\* and the position of the stream.
parse_sequence(in, pos, use_validation) ==
    IF pos > Len(in)
    THEN Ok([found |-> FALSE, label |-> <<>>, sites |-> <<>>, pos |-> pos])
    ELSE IF in[pos] # ">" THEN Throw("runtime_error")
    ELSE LET le    == read_while_isprint(in, pos + 1)
             label == SubSeq(in, pos + 1, le - 1)
         IN  IF label = <<>> THEN Throw("runtime_error")
             ELSE IF le > Len(in) \/ in[le] # "\n" THEN Throw("runtime_error")
             ELSE LET c == skip_comments(in, le + 1)
                      r == get_lines(in, c, <<>>)
                  IN  IF c > Len(in) THEN Throw("runtime_error")
                      ELSE IF r[2] = <<>> THEN Throw("runtime_error")
                      ELSE IF use_validation /\ \E i \in DOMAIN r[2] : ~lookup_(r[2][i])
                      THEN Throw("runtime_error")
                      ELSE Ok([found |-> TRUE, label |-> label, sites |-> r[2],
                               pos |-> r[1]])

RECURSIVE pedantic_skip_comments(_, _)
\* while( it && *it == ';' ) { utils::skip_while( it, isprint ); }
pedantic_skip_comments(in, pos) ==
    IF pos <= Len(in) /\ in[pos] = ";"
    THEN pedantic_skip_comments(in, read_while_isprint(in, pos))
    ELSE pos

RECURSIVE pedantic_lines(_, _, _, _)
\* while( it && *it != '>' ) { ... }: the sites are read character by
\* character; <<position, sites>> in a result, or the exception.
pedantic_lines(in, pos, sites, use_validation) ==
    IF pos <= Len(in) /\ in[pos] # ">"
    THEN LET e    == skip_until_newline(in, pos)
             line == SubSeq(in, pos, e - 1)
         IN  IF use_validation /\ \E i \in DOMAIN line : ~lookup_(line[i])
             THEN Throw("runtime_error")
             ELSE IF line = <<>> THEN Throw("runtime_error")
             ELSE IF e > Len(in) THEN Throw("runtime_error")
             ELSE pedantic_lines(in, e + 1, sites \o line, use_validation)
    ELSE Ok(<<pos, sites>>)

\* FastaReader::parse_sequence_pedantic( input_stream, sequence )
parse_sequence_pedantic(in, pos, use_validation) ==
    IF pos > Len(in)
    THEN Ok([found |-> FALSE, label |-> <<>>, sites |-> <<>>, pos |-> pos])
    ELSE IF in[pos] # ">" THEN Throw("runtime_error")
    ELSE LET le    == read_while_isprint(in, pos + 1)
             label == SubSeq(in, pos + 1, le - 1)
         IN  IF label = <<>> THEN Throw("runtime_error")
             ELSE IF le > Len(in) \/ in[le] # "\n" THEN Throw("runtime_error")
             ELSE LET c == pedantic_skip_comments(in, le)
                  IN  IF c > Len(in) \/ in[c] # "\n" THEN Throw("runtime_error")
                      ELSE LET r == pedantic_lines(in, c + 1, <<>>, use_validation)
                           IN  IF r.status # "ok" THEN r
                               ELSE IF r.value[2] = <<>> THEN Throw("runtime_error")
                               ELSE Ok([found |-> TRUE, label |-> label,
                                        sites |-> r.value[2], pos |-> r.value[1]])

InitFasta ==
    /\ file \in FastaInputs(MaxInputLen)
    /\ op = "init"
    /\ args = <<>>
    /\ res = <<>>
    /\ heap = MakeHeap(<<>>, 0, 0, 0)
    /\ trees = <<>>
    /\ pars = <<>>
    /\ sample = <<>>
    /\ file_names = <<>>
    /\ faults = 0
    /\ NoLogging
    /\ sample_set = <<>>
    /\ matrix = <<>>

ParseSequence(use_validation) ==
    /\ op = "init"
    /\ op' = "parse_sequence"
    /\ args' = <<use_validation>>
    /\ res' = parse_sequence(file, 1, use_validation)
    /\ UNCHANGED <<heap, trees, pars, sample, file, faults, sample_set, matrix, file_names, log_vars>>

ParseSequencePedantic(use_validation) ==
    /\ op = "init"
    /\ op' = "parse_sequence_pedantic"
    /\ args' = <<use_validation>>
    /\ res' = parse_sequence_pedantic(file, 1, use_validation)
    /\ UNCHANGED <<heap, trees, pars, sample, file, faults, sample_set, matrix, file_names, log_vars>>

NextFasta ==
    \/ \E use_validation \in BOOLEAN : ParseSequence(use_validation)
    \/ \E use_validation \in BOOLEAN : ParseSequencePedantic(use_validation)

SpecFasta == InitFasta /\ [][NextFasta]_vars

\* C21 as stated: parse_sequence_pedantic accepts the inputs parse_sequence
\* accepts and gives the same label and sites, so that a line that starts
\* with ';' directly after the label line is left out of the sites by both.
\* Violated: the pedantic method skips no comment line, and it rejects an
\* empty line between the lines of a sequence.
C21_PedanticAcceptsTheSame ==
    op = "parse_sequence_pedantic" =>
        LET fast == parse_sequence(file, 1, args[1])
        IN  /\ res.status = fast.status
            /\ res.status = "ok" =>
                  /\ res.value.found = fast.value.found
                  /\ res.value.label = fast.value.label
                  /\ res.value.sites = fast.value.sites
====
